---- MODULE Spec2Model ----
(***************************************************************************)
(* A model of the Smogon usage-statistics module of poke-api:             *)
(*   - SmogonModule (src/src/modules/smogon/index.ts): the format cache   *)
(*     and its query methods;                                             *)
(*   - team-synergy, counter-analysis, coverage and reports: the pure     *)
(*     analysis functions, as operators over a team and a usage map.      *)
(*                                                                         *)
(* Numbers.  JavaScript numbers are modelled as exact rationals           *)
(* [n |-> numerator, d |-> denominator > 0]; percentages of the input are *)
(* given in tenths of a percent (726 is 72.6%), counter scores and counts *)
(* as integers.  Floating-point rounding is not modelled.                 *)
(*                                                                         *)
(* Maps.  A JavaScript Map is a sequence of [key, val] records without    *)
(* repeated keys, in insertion order (the order Map iteration follows).   *)
(***************************************************************************)
EXTENDS Integers, Sequences, FiniteSets, TLC

VARIABLES
    files,      \* the data directory: format id -> file content, or NoFile
    dataCache,  \* SmogonModule.dataCache: a Map format id -> usage map
    parses,     \* format id -> number of parse-and-store since its last eviction
    pre,        \* dataCache as it was before the last operation
    ret,        \* the last operation: its name, arguments, outcome and value
    team,       \* the team handed to an analysis function
    usageData,  \* the usage map handed to an analysis function
    content,    \* the lines of the text handed to the parser
    loads,      \* the loadFormat calls under way: caller -> position and locals
    client,     \* PokeAPIClient: its cache (a Map url -> entry) and its options
    now,        \* Date.now()
    gets        \* the get calls under way: caller -> position and locals

vars == <<files, dataCache, parses, pre, ret, team, usageData, content, loads,
          client, now, gets>>

\* the HTTP client is not part of a run
ClientUnused == client = <<>> /\ now = 0 /\ gets = <<>>

(***************************************************************************)
(* Bounds of the model.                                                    *)
(***************************************************************************)
MaxTeam == 3           \* longest team list of the synergy, coverage and report runs
MaxThreatHead == 3     \* blind-spot runs: longest leading part of a team, any names
MaxThreatPad == 4      \* blind-spot runs: longest padding of a team behind it
MaxLimit == 2          \* largest limit handed to suggestTeammates
MaxLines == 7          \* most lines of a text handed to splitIntoEntries
MaxBlocks == 3         \* most blocks of a file handed to parseUsageFile

(***************************************************************************)
(* Sequences.                                                              *)
(***************************************************************************)
Range(s) == { s[i] : i \in 1..Len(s) }

RECURSIVE SeqsUpTo(_, _)
SeqsUpTo(S, n) ==
    IF n = 0 THEN { <<>> }
    ELSE LET shorter == SeqsUpTo(S, n - 1)
         IN  shorter \cup { Append(s, x) : s \in { t \in shorter : Len(t) = n - 1 }, x \in S }

RECURSIVE SelectSeqIdx(_, _, _)
\* the indices i of 1..n, in order, for which keep[i] holds
SelectSeqIdx(keep, i, n) ==
    IF i > n THEN <<>>
    ELSE (IF keep[i] THEN <<i>> ELSE <<>>) \o SelectSeqIdx(keep, i + 1, n)

Take(s, n) == SubSeq(s, 1, IF n < Len(s) THEN n ELSE Len(s))

RECURSIVE SumSeq(_)
SumSeq(s) == IF s = <<>> THEN 0 ELSE Head(s) + SumSeq(Tail(s))

(***************************************************************************)
(* Exact rationals.                                                        *)
(***************************************************************************)
Abs(x) == IF x < 0 THEN -x ELSE x
Max(a, b) == IF a > b THEN a ELSE b          \* Math.max
Min(a, b) == IF a < b THEN a ELSE b          \* Math.min

RECURSIVE GCD(_, _)
GCD(a, b) == IF b = 0 THEN a ELSE GCD(b, a % b)

Rat(n, d) ==
    LET g == GCD(Abs(n), d)
    IN  [n |-> n \div g, d |-> d \div g]

RInt(k) == [n |-> k, d |-> 1]
RAdd(a, b) == Rat(a.n * b.d + b.n * a.d, a.d * b.d)
RSub(a, b) == Rat(a.n * b.d - b.n * a.d, a.d * b.d)
RMul(a, b) == Rat(a.n * b.n, a.d * b.d)
RDivInt(a, k) == Rat(a.n, a.d * k)           \* a / k, for an integer k > 0
RLt(a, b) == a.n * b.d < b.n * a.d
RLe(a, b) == a.n * b.d <= b.n * a.d
REq(a, b) == a.n * b.d = b.n * a.d
RMin(a, b) == IF RLe(a, b) THEN a ELSE b     \* Math.min
RMax(a, b) == IF RLe(a, b) THEN b ELSE a     \* Math.max
RIsInt(a) == a.n % a.d = 0
RFloor(a) == a.n \div a.d                    \* \div rounds towards minus infinity
RCeil(a) == -((-a.n) \div a.d)               \* Math.ceil
RRound(a) == (2 * a.n + a.d) \div (2 * a.d)  \* Math.round: floor(a + 1/2)

(***************************************************************************)
(* JavaScript Maps: sequences of [key, val] in insertion order.            *)
(***************************************************************************)
MapKeys(m) == { m[i].key : i \in 1..Len(m) }
MapHas(m, k) == k \in MapKeys(m)
\* map.get(k) for a key the Map has; callers test MapHas first, as the code
\* tests the result against undefined
MapGet(m, k) == m[CHOOSE i \in 1..Len(m) : m[i].key = k].val
MapSet(m, k, v) ==
    IF MapHas(m, k)
    THEN [i \in 1..Len(m) |-> IF m[i].key = k THEN [key |-> k, val |-> v] ELSE m[i]]
    ELSE Append(m, [key |-> k, val |-> v])
MapValues(m) == [i \in 1..Len(m) |-> m[i].val]
MapKeysSeq(m) == [i \in 1..Len(m) |-> m[i].key]
\* map.get(k) || 0 for a Map of numbers: 0 when the key is absent (or holds 0)
GetOrZero(m, k) == IF MapHas(m, k) THEN MapGet(m, k) ELSE 0
UniqueKeys(m) == \A i, j \in 1..Len(m) : m[i].key = m[j].key => i = j

(***************************************************************************)
(* Array.prototype.sort with a comparator: a stable insertion sort.  After *)
(* (mode, h, e) is "compare(h, e) > 0", that is, h has to come after e.    *)
(***************************************************************************)
After(mode, h, e) ==
    CASE mode = "scoreDesc" -> RLt(h.score, e.score)     \* (a, b) => b.score - a.score
      [] mode = "scoreAsc" -> RLt(e.score, h.score)      \* (a, b) => a.score - b.score
      [] mode = "valDesc" -> h.val < e.val               \* (a, b) => b[1] - a[1]
      [] mode = "rawCountDesc" -> h.rawCount < e.rawCount   \* (a, b) => b.rawCount - a.rawCount
      [] mode = "rawCountAsc" -> e.rawCount < h.rawCount    \* (a, b) => a.rawCount - b.rawCount
      [] mode = "percentageDesc" -> h.percentage < e.percentage
      [] mode = "intScoreDesc" -> h.score < e.score
      [] mode = "blindSpot" ->                            \* parser.ts:422-427
            IF Len(e.threatens) # Len(h.threatens)
            THEN Len(e.threatens) > Len(h.threatens)
            ELSE RLt(h.avgScore, e.avgScore)
      [] mode = "threatScoreDesc" -> RLt(h.threatScore, e.threatScore)

RECURSIVE InsertSorted(_, _, _)
InsertSorted(s, e, mode) ==
    IF s = <<>> THEN <<e>>
    ELSE IF After(mode, Head(s), e) THEN <<e>> \o s
    ELSE <<Head(s)>> \o InsertSorted(Tail(s), e, mode)

RECURSIVE SortBy(_, _)
SortBy(s, mode) ==
    IF s = <<>> THEN <<>>
    ELSE InsertSorted(SortBy(SubSeq(s, 1, Len(s) - 1), mode), s[Len(s)], mode)

(***************************************************************************)
(* Names.  String.prototype.toLowerCase on the strings of the model.       *)
(***************************************************************************)
ToLowerCase(s) ==
    CASE s = "Snorlax" -> "snorlax"
      [] s = "Zapdos" -> "zapdos"
      [] s = "Cloyster" -> "cloyster"
      [] s = "Raikou" -> "raikou"
      [] s = "MissingNo" -> "missingno"
      [] s = "Skarmory" -> "skarmory"
      [] s = "Earthquake" -> "earthquake"
      [] s = "Body Slam" -> "body slam"
      [] s = "Thunderbolt" -> "thunderbolt"
      [] s = "Hidden Power Ice" -> "hidden power ice"
      [] s = "Rest" -> "rest"
      [] s = "Other" -> "other"
      [] s = "Abilities" -> "abilities"
      [] s = "Items" -> "items"
      [] s = "Moves" -> "moves"
      [] s = "MOVES" -> "moves"
      [] s = "Tera Types" -> "tera types"
      [] s = "Teammates" -> "teammates"
      [] s = "Checks and Counters" -> "checks and counters"
      [] s = "Immunity" -> "immunity"
      [] s = "Leftovers" -> "leftovers"
      [] s = "Raw count:" -> "raw count:"
      [] s = "Avg. weight:" -> "avg. weight:"
      [] s = "Viability Ceiling:" -> "viability ceiling:"
      [] OTHER -> s

NormalizeTeam(t) == [i \in 1..Len(t) |-> ToLowerCase(t[i])]   \* team.map(toLowerCase)

(***************************************************************************)
(* PokemonUsageData (src/src/types/smogon.ts).  The label -> percentage    *)
(* Maps hold tenths of a percent; checksAndCounters is an array of         *)
(* [name, score].                                                          *)
(***************************************************************************)
PokemonUsageData(name, rawCount, viabilityCeiling, moves, teammates, checksAndCounters) ==
    [name |-> name, rawCount |-> rawCount, avgWeight |-> 0,
     viabilityCeiling |-> viabilityCeiling,
     abilities |-> <<>>, items |-> <<>>, moves |-> moves, teraTypes |-> <<>>,
     teammates |-> teammates, checksAndCounters |-> checksAndCounters]

KV(k, v) == [key |-> k, val |-> v]

(***************************************************************************)
(* team-synergy: calculateTeamSynergy and suggestTeammates.                *)
(***************************************************************************)
\* One teammate entry of a team member: skipped when the teammate is on the
\* team, otherwise its percentage is added to the candidate's total.
AccumulateEntry(acc, entry, normalizedTeam) ==
    LET normalizedTeammate == ToLowerCase(entry.key)
    IN  IF normalizedTeammate \in Range(normalizedTeam) THEN acc
        ELSE MapSet(acc, normalizedTeammate, GetOrZero(acc, normalizedTeammate) + entry.val)

RECURSIVE AccumulateTeammates(_, _, _)
AccumulateTeammates(acc, entries, normalizedTeam) ==
    IF entries = <<>> THEN acc
    ELSE AccumulateTeammates(AccumulateEntry(acc, Head(entries), normalizedTeam),
                             Tail(entries), normalizedTeam)

RECURSIVE CandidateScores(_, _, _, _)
CandidateScores(acc, members, normalizedTeam, usage) ==
    IF members = <<>> THEN acc
    ELSE LET data == MapGet(usage, Head(members))
             next == IF ~MapHas(usage, Head(members)) THEN acc     \* if (!data) continue
                     ELSE AccumulateTeammates(acc, data.teammates, normalizedTeam)
         IN  CandidateScores(next, Tail(members), normalizedTeam, usage)

\* a variant that averages over the known members only
suggestTeammatesOverKnown(currentTeam, usage, limit) ==
    LET normalizedTeam == NormalizeTeam(currentTeam)
        known == SelectSeq(normalizedTeam, LAMBDA name : MapHas(usage, name))
        candidateScores == CandidateScores(<<>>, normalizedTeam, normalizedTeam, usage)
        candidates == [i \in 1..Len(candidateScores) |->
                         [name |-> candidateScores[i].key,
                          score |-> Rat(candidateScores[i].val, 10 * Len(known))]]
    IN  Take(SortBy(candidates, "scoreDesc"), limit)

suggestTeammates(currentTeam, usage, limit) ==
    LET normalizedTeam == NormalizeTeam(currentTeam)
        candidateScores == CandidateScores(<<>>, normalizedTeam, normalizedTeam, usage)
        candidates == [i \in 1..Len(candidateScores) |->
                         [name |-> candidateScores[i].key,
                          score |-> Rat(candidateScores[i].val, 10 * Len(normalizedTeam))]]
    IN  Take(SortBy(candidates, "scoreDesc"), limit)

\* The index pairs (i, j), i < j, in the order the two loops visit them.
RECURSIVE IndexPairs(_, _, _)
IndexPairs(i, j, n) ==
    IF i > n THEN <<>>
    ELSE IF j > n THEN IndexPairs(i + 1, i + 2, n)
    ELSE <<(<<i, j>>)>> \o IndexPairs(i, j + 1, n)

\* The pair the loop body builds for (i, j): both members have usage data.
TeamPairs(normalizedTeam, usage) ==
    LET all == IndexPairs(1, 2, Len(normalizedTeam))
        known == SelectSeqIdx([k \in 1..Len(all) |->
                                 /\ MapHas(usage, normalizedTeam[all[k][1]])
                                 /\ MapHas(usage, normalizedTeam[all[k][2]])],
                              1, Len(all))
    IN  [k \in 1..Len(known) |->
           LET pokemon1 == normalizedTeam[all[known[k]][1]]
               pokemon2 == normalizedTeam[all[known[k]][2]]
               synergy1to2 == GetOrZero(MapGet(usage, pokemon1).teammates, pokemon2)
               synergy2to1 == GetOrZero(MapGet(usage, pokemon2).teammates, pokemon1)
           IN  [pokemon1 |-> pokemon1, pokemon2 |-> pokemon2,
                score |-> Rat(synergy1to2 + synergy2to1, 20)]]

\* pairScores: a Map keyed by `${pokemon1}|${pokemon2}`; a key set twice keeps
\* one entry.  The key is modelled as the pair of names (no name holds "|").
RECURSIVE PairScores(_, _)
PairScores(acc, pairs) ==
    IF pairs = <<>> THEN acc
    ELSE PairScores(MapSet(acc, <<Head(pairs).pokemon1, Head(pairs).pokemon2>>,
                           Head(pairs).score),
                    Tail(pairs))

RECURSIVE RSum(_)
RSum(s) == IF s = <<>> THEN RInt(0) ELSE RAdd(Head(s), RSum(Tail(s)))

IsStrongPair(pair) == RLe(RInt(30), pair.score)       \* avgSynergy >= 30
\* a variant that calls every pair below the strong threshold weak
IsWeakPairBelowStrong(pair) == ~IsStrongPair(pair)
IsWeakPair(pair) == ~IsStrongPair(pair) /\ RLt(pair.score, RInt(15))   \* else if (avgSynergy < 15)

OverallSynergyScore(allScores) ==
    LET avgScore == IF Len(allScores) > 0
                    THEN RDivInt(RSum(allScores), Len(allScores)) ELSE RInt(0)
    IN  RMin(RInt(100), RMul(avgScore, RInt(2)))

calculateTeamSynergy(t, usage) ==
    LET normalizedTeam == NormalizeTeam(t)
        pairs == TeamPairs(normalizedTeam, usage)
        pairScores == PairScores(<<>>, pairs)
        strongPairs == SelectSeq(pairs, IsStrongPair)
        weakPairs == SelectSeq(pairs, IsWeakPair)
    IN  [score |-> OverallSynergyScore(MapValues(pairScores)),
         strongPairs |-> SortBy(strongPairs, "scoreDesc"),
         weakPairs |-> SortBy(weakPairs, "scoreAsc"),
         suggestedTeammates |-> suggestTeammates(normalizedTeam, usage, 10)]

(***************************************************************************)
(* counter-analysis: analyzeTeamWeaknesses, findBlindSpots.                *)
(***************************************************************************)
\* One checks-and-counters entry of a team member, recorded in allThreats:
\* a Map threat name -> [threatens: a Set, in insertion order, scores: an array].
RecordThreat(allThreats, teamMember, counter) ==
    LET threatName == ToLowerCase(counter.name)
        old == IF MapHas(allThreats, threatName) THEN MapGet(allThreats, threatName)
               ELSE [threatens |-> <<>>, scores |-> <<>>]
    IN  MapSet(allThreats, threatName,
               [threatens |-> IF teamMember \in Range(old.threatens) THEN old.threatens
                              ELSE Append(old.threatens, teamMember),
                scores |-> Append(old.scores, counter.score)])

RECURSIVE RecordCounters(_, _, _)
RecordCounters(allThreats, teamMember, counters) ==
    IF counters = <<>> THEN allThreats
    ELSE RecordCounters(RecordThreat(allThreats, teamMember, Head(counters)),
                        teamMember, Tail(counters))

RECURSIVE CollectThreats(_, _, _)
CollectThreats(allThreats, members, usage) ==
    IF members = <<>> THEN allThreats
    ELSE LET next == IF ~MapHas(usage, Head(members)) THEN allThreats   \* if (!data) continue
                     ELSE RecordCounters(allThreats, Head(members),
                                         MapGet(usage, Head(members)).checksAndCounters)
         IN  CollectThreats(next, Tail(members), usage)

\* a variant that rounds the third of the team down
BlindSpotThresholdFloor(teamSize) ==
    LET c == RFloor(Rat(33 * teamSize, 100))
    IN  IF c > 2 THEN c ELSE 2

\* Math.max(2, Math.ceil(teamSize * 0.33))
BlindSpotThreshold(teamSize) ==
    LET c == RCeil(Rat(33 * teamSize, 100))
    IN  IF c > 2 THEN c ELSE 2

AvgScore(scores) == Rat(SumSeq(scores), Len(scores))

findBlindSpotsFromThreats(allThreats, teamSize) ==
    LET threshold == BlindSpotThreshold(teamSize)
        kept == SelectSeqIdx([i \in 1..Len(allThreats) |->
                                Len(allThreats[i].val.threatens) >= threshold],
                             1, Len(allThreats))
        blindSpots == [k \in 1..Len(kept) |->
                         [pokemon |-> allThreats[kept[k]].key,
                          threatens |-> allThreats[kept[k]].val.threatens,
                          avgScore |-> AvgScore(allThreats[kept[k]].val.scores)]]
    IN  SortBy(blindSpots, "blindSpot")

\* a variant of findBlindSpots' collection that visits a repeated member once
CollectThreatsOfDistinct(allThreats, members, usage) ==
    CollectThreats(allThreats,
                   [k \in 1..Len(SelectSeqIdx([i \in 1..Len(members) |->
                                      \A j \in 1..(i - 1) : members[j] # members[i]],
                                   1, Len(members))) |->
                      members[SelectSeqIdx([i \in 1..Len(members) |->
                                      \A j \in 1..(i - 1) : members[j] # members[i]],
                                   1, Len(members))[k]]],
                   usage)

\* findBlindSpots' own loop over the members (parser.ts:580-595), a copy of
\* the loop of analyzeTeamWeaknesses
RECURSIVE CollectBlindSpotThreats(_, _, _)
CollectBlindSpotThreats(allThreats, members, usage) ==
    IF members = <<>> THEN allThreats
    ELSE IF ~MapHas(usage, Head(members))                         \* if (!data) continue
    THEN CollectBlindSpotThreats(allThreats, Tail(members), usage)
    ELSE CollectBlindSpotThreats(
             RecordCounters(allThreats, Head(members),
                            MapGet(usage, Head(members)).checksAndCounters),
             Tail(members), usage)

findBlindSpots(t, usage) ==
    LET normalizedTeam == NormalizeTeam(t)
        allThreats == CollectBlindSpotThreats(<<>>, normalizedTeam, usage)
    IN  findBlindSpotsFromThreats(allThreats, Len(normalizedTeam))

\* The team members found in the threat's own checks-and-counters list.  The
\* loop over the member's own list (parser.ts:484-489) only continues.
findTeamMembersCheckingThreat(threat, normalizedTeam, usage) ==
    LET Checks(i) ==
            /\ MapHas(usage, normalizedTeam[i])
            /\ MapHas(usage, threat)
            /\ \E c \in 1..Len(MapGet(usage, threat).checksAndCounters) :
                  ToLowerCase(MapGet(usage, threat).checksAndCounters[c].name) = normalizedTeam[i]
        found == SelectSeqIdx([i \in 1..Len(normalizedTeam) |-> Checks(i)],
                              1, Len(normalizedTeam))
        Counter(i) ==
            LET list == MapGet(usage, threat).checksAndCounters
                first == CHOOSE c \in 1..Len(list) :
                            /\ ToLowerCase(list[c].name) = normalizedTeam[i]
                            /\ \A b \in 1..(c - 1) : ToLowerCase(list[b].name) # normalizedTeam[i]
            IN  list[first]
        checkers == [k \in 1..Len(found) |->
                       [name |-> normalizedTeam[found[k]], score |-> Counter(found[k]).score]]
    IN  SortBy(checkers, "intScoreDesc")

\* a variant of the usage factor that counts an unknown threat in full
UsageFactorUnknownFull(pokemon, usage) ==
    IF MapHas(usage, pokemon)
    THEN RMin(RInt(1), Rat(MapGet(usage, pokemon).rawCount, 5000))
    ELSE RInt(1)

\* pokemonData ? Math.min(1, pokemonData.rawCount / 5000) : 0.5
UsageFactor(pokemon, usage) ==
    IF MapHas(usage, pokemon)
    THEN RMin(RInt(1), Rat(MapGet(usage, pokemon).rawCount, 5000))
    ELSE Rat(1, 2)

calculateMajorThreats(threats, usage, normalizedTeam) ==
    LET assessments ==
          [i \in 1..Len(threats) |->
             LET data == threats[i].val
                 avgScore == AvgScore(data.scores)
                 threatenCount == Len(data.threatens)
             IN  [pokemon |-> threats[i].key,
                  threatScore |-> RMul(RAdd(RMul(avgScore, RInt(10)), RInt(threatenCount * 20)),
                                       UsageFactor(threats[i].key, usage)),
                  threatens |-> [k \in 1..Len(data.threatens) |->
                                   [name |-> data.threatens[k], score |-> data.scores[1]]],
                  threatenedBy |-> findTeamMembersCheckingThreat(threats[i].key,
                                                                 normalizedTeam, usage)]]
    IN  SortBy(assessments, "threatScoreDesc")

\* a variant of the defensive score without Math.max(0, ...)
DefensiveScoreUnclamped(threatCount, teamSize, blindSpotCount) ==
    LET avgThreatsPerMember == Rat(threatCount, IF teamSize > 1 THEN teamSize ELSE 1)
        blindSpotPenalty == blindSpotCount * 10
    IN  RSub(RSub(RInt(100), RMul(avgThreatsPerMember, RInt(5))), RInt(blindSpotPenalty))

DefensiveScore(threatCount, teamSize, blindSpotCount) ==
    LET avgThreatsPerMember == Rat(threatCount, IF teamSize > 1 THEN teamSize ELSE 1)
        blindSpotPenalty == blindSpotCount * 10
    IN  RMax(RInt(0), RSub(RSub(RInt(100), RMul(avgThreatsPerMember, RInt(5))),
                           RInt(blindSpotPenalty)))

analyzeTeamWeaknesses(t, usage) ==
    LET normalizedTeam == NormalizeTeam(t)
        allThreats == CollectThreats(<<>>, normalizedTeam, usage)
        blindSpots == findBlindSpotsFromThreats(allThreats, Len(normalizedTeam))
        majorThreats == calculateMajorThreats(allThreats, usage, normalizedTeam)
    IN  [blindSpots |-> blindSpots,
         defensiveScore |-> DefensiveScore(Len(allThreats), Len(normalizedTeam), Len(blindSpots)),
         majorThreats |-> Take(majorThreats, 10)]

(***************************************************************************)
(* coverage: the type chart, getMoveType, analyzeCoverage and              *)
(* checkMoveRedundancy.                                                    *)
(***************************************************************************)
ALL_TYPES ==
    << "Normal", "Fire", "Water", "Electric", "Grass", "Ice", "Fighting", "Poison",
       "Ground", "Flying", "Psychic", "Bug", "Rock", "Ghost", "Dragon", "Dark", "Steel" >>

\* TYPE_CHART[type].strong
Strong(type) ==
    CASE type = "Normal" -> {}
      [] type = "Fire" -> {"Grass", "Ice", "Bug", "Steel"}
      [] type = "Water" -> {"Fire", "Ground", "Rock"}
      [] type = "Electric" -> {"Water", "Flying"}
      [] type = "Grass" -> {"Water", "Ground", "Rock"}
      [] type = "Ice" -> {"Grass", "Ground", "Flying", "Dragon"}
      [] type = "Fighting" -> {"Normal", "Ice", "Rock", "Dark", "Steel"}
      [] type = "Poison" -> {"Grass"}
      [] type = "Ground" -> {"Fire", "Electric", "Poison", "Rock", "Steel"}
      [] type = "Flying" -> {"Grass", "Fighting", "Bug"}
      [] type = "Psychic" -> {"Fighting", "Poison"}
      [] type = "Bug" -> {"Grass", "Psychic", "Dark"}
      [] type = "Rock" -> {"Fire", "Ice", "Flying", "Bug"}
      [] type = "Ghost" -> {"Psychic", "Ghost"}
      [] type = "Dragon" -> {"Dragon"}
      [] type = "Dark" -> {"Psychic", "Ghost"}
      [] type = "Steel" -> {"Ice", "Rock"}

\* TYPE_CHART is an object literal: besides its 17 own keys, TYPE_CHART[key]
\* is truthy for the keys it inherits from Object.prototype, and such a value
\* has no .strong.
InheritedKeys == {"constructor", "toString", "valueOf", "hasOwnProperty"}
HasOwnType(key) == key \in Range(ALL_TYPES)
TypeChartTruthy(key) == HasOwnType(key) \/ key \in InheritedKeys

Null == "null"

\* moveName.startsWith('Hidden Power')
StartsWithHiddenPower(moveName) ==
    moveName \in {"Hidden Power", "Hidden Power Ice", "Hidden Power [Ice]",
                  "Hidden Power [Bug]", "Hidden Power [ice]", "Hidden Power [constructor]"}

\* moveName.match(/Hidden Power \[?(\w+)\]?/): the captured word, or Null
HiddenPowerMatch(moveName) ==
    CASE moveName = "Hidden Power Ice" -> "Ice"
      [] moveName = "Hidden Power [Ice]" -> "Ice"
      [] moveName = "Hidden Power [Bug]" -> "Bug"
      [] moveName = "Hidden Power [ice]" -> "ice"
      [] moveName = "Hidden Power [constructor]" -> "constructor"
      [] OTHER -> Null

\* moveTypeMap[moveName] || null
MoveTypeMap(moveName) ==
    CASE moveName = "Earthquake" -> "Ground"
      [] moveName = "Thunderbolt" -> "Electric"
      [] moveName = "Thunder" -> "Electric"
      [] moveName = "Ice Beam" -> "Ice"
      [] moveName = "Fire Blast" -> "Fire"
      [] moveName = "Flamethrower" -> "Fire"
      [] moveName = "Surf" -> "Water"
      [] moveName = "Hydro Pump" -> "Water"
      [] moveName = "Psychic" -> "Psychic"
      [] moveName = "Shadow Ball" -> "Ghost"
      [] moveName = "Sludge Bomb" -> "Poison"
      [] moveName = "Rock Slide" -> "Rock"
      [] moveName = "Ancient Power" -> "Rock"
      [] moveName = "Cross Chop" -> "Fighting"
      [] moveName = "Dynamic Punch" -> "Fighting"
      [] moveName = "Crunch" -> "Dark"
      [] moveName = "Pursuit" -> "Dark"
      [] moveName = "Return" -> "Normal"
      [] moveName = "Body Slam" -> "Normal"
      [] moveName = "Double-Edge" -> "Normal"
      [] moveName = "Giga Drain" -> "Grass"
      [] moveName = "Solar Beam" -> "Grass"
      [] moveName = "Zap Cannon" -> "Electric"
      [] moveName = "Outrage" -> "Dragon"
      [] moveName = "Dragonbreath" -> "Dragon"
      [] OTHER -> Null

getMoveType(moveName) ==
    IF StartsWithHiddenPower(moveName)
    THEN IF HiddenPowerMatch(moveName) # Null THEN HiddenPowerMatch(moveName) ELSE "Normal"
    ELSE MoveTypeMap(moveName)

\* a variant that keeps the five most used moves
TopFiveMoves(data) == Take(SortBy(data.moves, "valDesc"), 5)

\* Array.from(data.moves.entries()).sort((a, b) => b[1] - a[1]).slice(0, 4)
TopMoves(data) == Take(SortBy(data.moves, "valDesc"), 4)

NotOther(entry) == entry.key # "Other"                  \* move === 'Other'
\* the moves of the top 4 the loops go on with
ConsideredMoves(data) == SelectSeq(TopMoves(data), NotOther)

\* The team members with usage data, in team order (a name listed twice is
\* visited twice).
KnownMembers(normalizedTeam, usage) ==
    LET idx == SelectSeqIdx([i \in 1..Len(normalizedTeam) |->
                               MapHas(usage, normalizedTeam[i])], 1, Len(normalizedTeam))
    IN  [k \in 1..Len(idx) |-> normalizedTeam[idx[k]]]

\* for (const coveredType of TYPE_CHART[moveType].strong) coverageByType.set(...)
CoverMove(coverageByType, move) ==
    LET moveType == getMoveType(move)
    IN  IF moveType # Null /\ TypeChartTruthy(moveType)
        THEN [i \in 1..Len(coverageByType) |->
                IF coverageByType[i].key \in Strong(moveType)
                THEN KV(coverageByType[i].key, coverageByType[i].val + 1)
                ELSE coverageByType[i]]
        ELSE coverageByType

RECURSIVE CoverMoves(_, _)
CoverMoves(coverageByType, entries) ==
    IF entries = <<>> THEN coverageByType
    ELSE CoverMoves(CoverMove(coverageByType, Head(entries).key), Tail(entries))

RECURSIVE CoverMembers(_, _, _)
CoverMembers(coverageByType, members, usage) ==
    IF members = <<>> THEN coverageByType
    ELSE CoverMembers(CoverMoves(coverageByType, ConsideredMoves(MapGet(usage, Head(members)))),
                      Tail(members), usage)

\* TYPE_CHART[moveType] is truthy and has no .strong: iterating it raises a
\* TypeError (coverage.ts:114-116).
CoverageRaises(normalizedTeam, usage) ==
    \E i \in 1..Len(normalizedTeam) :
        /\ MapHas(usage, normalizedTeam[i])
        /\ \E e \in Range(ConsideredMoves(MapGet(usage, normalizedTeam[i]))) :
              /\ getMoveType(e.key) # Null
              /\ TypeChartTruthy(getMoveType(e.key))
              /\ ~HasOwnType(getMoveType(e.key))

\* movesByPokemon: a Map member -> the moves considered for it (set per member)
RECURSIVE MovesByPokemon(_, _, _)
MovesByPokemon(acc, members, usage) ==
    IF members = <<>> THEN acc
    ELSE MovesByPokemon(MapSet(acc, Head(members),
                               MapKeysSeq(ConsideredMoves(MapGet(usage, Head(members))))),
                        Tail(members), usage)

\* typeUsage: a Map move type -> the Set of members using it (insertion order)
AddTypeUser(typeUsage, move, pokemon) ==
    LET moveType == getMoveType(move)
        old == IF MapHas(typeUsage, moveType) THEN MapGet(typeUsage, moveType) ELSE <<>>
    IN  IF moveType = Null THEN typeUsage                     \* if (!moveType) continue
        ELSE MapSet(typeUsage, moveType,
                    IF pokemon \in Range(old) THEN old ELSE Append(old, pokemon))

RECURSIVE TypeUsageOfMoves(_, _, _)
TypeUsageOfMoves(typeUsage, moves, pokemon) ==
    IF moves = <<>> THEN typeUsage
    ELSE TypeUsageOfMoves(AddTypeUser(typeUsage, Head(moves), pokemon), Tail(moves), pokemon)

RECURSIVE TypeUsage(_, _)
TypeUsage(typeUsage, movesByPokemon) ==
    IF movesByPokemon = <<>> THEN typeUsage
    ELSE TypeUsage(TypeUsageOfMoves(typeUsage, Head(movesByPokemon).val, Head(movesByPokemon).key),
                   Tail(movesByPokemon))

MoreThanTwoUsers(entry) == Len(entry.val) > 2               \* pokemon.size > 2

findMoveRedundancies(movesByPokemon) ==
    LET over == SelectSeq(TypeUsage(<<>>, movesByPokemon), MoreThanTwoUsers)
    IN  [i \in 1..Len(over) |-> [type |-> over[i].key, pokemon |-> over[i].val]]

IsGap(entry) == entry.val = 0                               \* coverage === 0
IsCovered(entry) == entry.val > 0

analyzeCoverage(t, usage) ==
    LET normalizedTeam == NormalizeTeam(t)
        members == KnownMembers(normalizedTeam, usage)
        initial == [i \in 1..Len(ALL_TYPES) |-> KV(ALL_TYPES[i], 0)]
        coverageByType == CoverMembers(initial, members, usage)
        movesByPokemon == MovesByPokemon(<<>>, members, usage)
        gaps == MapKeysSeq(SelectSeq(coverageByType, IsGap))
        typesWithCoverage == Len(SelectSeq(coverageByType, IsCovered))
    IN  [coverageByType |-> coverageByType,
         gaps |-> gaps,
         redundancies |-> findMoveRedundancies(movesByPokemon),
         coverageScore |-> Rat(typesWithCoverage * 100, Len(ALL_TYPES))]

\* duplicateMoves: a Map move -> the array of members whose top moves hold it
RECURSIVE MoveUsers(_, _, _)
MoveUsers(duplicateMoves, moves, pokemon) ==
    IF moves = <<>> THEN duplicateMoves
    ELSE LET old == IF MapHas(duplicateMoves, Head(moves))
                    THEN MapGet(duplicateMoves, Head(moves)) ELSE <<>>
         IN  MoveUsers(MapSet(duplicateMoves, Head(moves), Append(old, pokemon)),
                       Tail(moves), pokemon)

RECURSIVE DuplicateMoves(_, _, _)
DuplicateMoves(duplicateMoves, members, usage) ==
    IF members = <<>> THEN duplicateMoves
    ELSE DuplicateMoves(MoveUsers(duplicateMoves,
                                  MapKeysSeq(ConsideredMoves(MapGet(usage, Head(members)))),
                                  Head(members)),
                        Tail(members), usage)

SharedMove(entry) == Len(entry.val) > 1                     \* pokemon.length > 1

RECURSIVE TotalDuplicates(_)
TotalDuplicates(actualDuplicates) ==
    IF actualDuplicates = <<>> THEN 0
    ELSE Len(Head(actualDuplicates).val) - 1 + TotalDuplicates(Tail(actualDuplicates))

checkMoveRedundancy(t, usage) ==
    LET normalizedTeam == NormalizeTeam(t)
        members == KnownMembers(normalizedTeam, usage)
        movesByPokemon == MovesByPokemon(<<>>, members, usage)
        actualDuplicates == SelectSeq(DuplicateMoves(<<>>, members, usage), SharedMove)
        over == SelectSeq(TypeUsage(<<>>, movesByPokemon), MoreThanTwoUsers)
        excessiveCoverage == [i \in 1..Len(over) |->
                                [type |-> over[i].key, count |-> Len(over[i].val),
                                 pokemon |-> over[i].val]]
        score == TotalDuplicates(actualDuplicates) * 15 + Len(excessiveCoverage) * 10
    IN  [duplicateMoves |-> actualDuplicates,
         excessiveCoverage |-> excessiveCoverage,
         redundancyScore |-> IF score < 100 THEN score ELSE 100]

(***************************************************************************)
(* team-synergy: analyzeTeamComposition; reports: generateTeamReport.      *)
(***************************************************************************)
RECURSIVE SumField(_, _, _)
\* the sum of data.rawCount ("rawCount") or data.viabilityCeiling over members
SumField(members, usage, field) ==
    IF members = <<>> THEN 0
    ELSE (IF field = "rawCount" THEN MapGet(usage, Head(members)).rawCount
          ELSE MapGet(usage, Head(members)).viabilityCeiling)
         + SumField(Tail(members), usage, field)

\* allPokemon.findIndex((p) => p.name.toLowerCase() === pokemonName) + 1
RankOf(allPokemon, pokemonName) ==
    IF \E i \in 1..Len(allPokemon) : ToLowerCase(allPokemon[i].name) = pokemonName
    THEN CHOOSE i \in 1..Len(allPokemon) :
            /\ ToLowerCase(allPokemon[i].name) = pokemonName
            /\ \A b \in 1..(i - 1) : ToLowerCase(allPokemon[b].name) # pokemonName
    ELSE 0

analyzeTeamComposition(t, usage) ==
    LET normalizedTeam == NormalizeTeam(t)
        members == KnownMembers(normalizedTeam, usage)
        allPokemon == SortBy(MapValues(usage), "rawCountDesc")
        totalPokemon == Len(allPokemon)
        validCount == Len(members)
        totalUsage == SumField(members, usage, "rawCount")
        totalViability == SumField(members, usage, "viabilityCeiling")
        \* percentile = (1 - rank / totalPokemon) * 100, compared with 90 and 50
        Percentile(name) == Rat((totalPokemon - RankOf(allPokemon, name)) * 100, totalPokemon)
        IsTop(name) == RLe(RInt(90), Percentile(name))
        IsOff(name) == ~IsTop(name) /\ RLt(Percentile(name), RInt(50))
        topRaw == IF totalPokemon > 0 /\ allPokemon[1].rawCount # 0
                  THEN allPokemon[1].rawCount ELSE 1      \* allPokemon[0]?.rawCount || 1
        avgUsage == IF validCount > 0 THEN Rat(totalUsage, validCount) ELSE RInt(0)
        avgViability == IF validCount > 0 THEN Rat(totalViability, validCount) ELSE RInt(0)
        usageScore == RMin(RInt(100), RMul(RDivInt(avgUsage, topRaw), RInt(100)))
        viabilityScore == RMin(RInt(100), RDivInt(avgViability, 20))
    IN  [avgUsage |-> avgUsage,
         avgViability |-> avgViability,
         topTier |-> SelectSeq(members, IsTop),
         offMeta |-> SelectSeq(members, IsOff),
         metaScore |-> RAdd(RMul(usageScore, Rat(6, 10)), RMul(viabilityScore, Rat(4, 10)))]

generateMetaComparison(normalizedTeam, usage) ==
    LET composition == analyzeTeamComposition(normalizedTeam, usage)
        allPokemon == SortBy(MapValues(usage), "rawCountDesc")
        ranks == [i \in 1..Len(normalizedTeam) |-> RankOf(allPokemon, normalizedTeam[i])]
        validCount == Cardinality({ i \in 1..Len(ranks) : ranks[i] > 0 })
    IN  [avgUsageRank |-> IF validCount > 0 THEN Rat(SumSeq(ranks), validCount) ELSE RInt(0),
         avgViability |-> composition.avgViability,
         offMetaPicks |-> composition.offMeta,
         topTierPicks |-> composition.topTier,
         metaAlignmentScore |-> composition.metaScore]

calculateOverallScore(synergy, weaknesses, coverage, redundancy, meta) ==
    LET redundancyPenalty == IF 100 - redundancy.redundancyScore > 0
                             THEN 100 - redundancy.redundancyScore ELSE 0
        overall == RAdd(RAdd(RAdd(RAdd(RMul(synergy.score, Rat(25, 100)),
                                       RMul(weaknesses.defensiveScore, Rat(30, 100))),
                                  RMul(coverage.coverageScore, Rat(25, 100))),
                             RMul(RInt(redundancyPenalty), Rat(10, 100))),
                        RMul(meta.metaAlignmentScore, Rat(10, 100)))
    IN  RRound(overall)

\* generateTeamReport raises exactly when its call of analyzeCoverage does.
ReportRaises(t, usage) == CoverageRaises(NormalizeTeam(t), usage)

generateTeamReport(t, usage) ==
    LET normalizedTeam == NormalizeTeam(t)
        synergy == calculateTeamSynergy(normalizedTeam, usage)
        weaknesses == analyzeTeamWeaknesses(normalizedTeam, usage)
        coverage == analyzeCoverage(normalizedTeam, usage)
        redundancy == checkMoveRedundancy(normalizedTeam, usage)
        meta == generateMetaComparison(normalizedTeam, usage)
    IN  [team |-> normalizedTeam,
         synergy |-> synergy,
         weaknesses |-> weaknesses,
         coverage |-> coverage,
         meta |-> meta,
         redundancy |-> redundancy,
         overallScore |-> calculateOverallScore(synergy, weaknesses, coverage, redundancy, meta)]

(***************************************************************************)
(* parser: parseUsageFile over the entries of a file.  An entry of a file  *)
(* is [nameRow, rawCount, viabilityCeiling, moves, teammates,              *)
(* checksAndCounters]: what its name row and its sections hold, labels as  *)
(* written in the file.  nameRow is NoMatch when the second line does not  *)
(* match the name pattern.                                                 *)
(***************************************************************************)
NoMatch == "<no match>"

DefaultOptions ==
    [includeSpreads |-> TRUE, includeChecksAndCounters |-> TRUE, minMovePercentage |-> 0]

\* parsePercentageMap: the label lowercased, rows under minPercentage dropped
RECURSIVE parsePercentageMap(_, _, _)
parsePercentageMap(rows, targetMap, minPercentage) ==
    IF rows = <<>> THEN targetMap
    ELSE parsePercentageMap(Tail(rows),
                            IF Head(rows).val >= minPercentage
                            THEN MapSet(targetMap, ToLowerCase(Head(rows).key), Head(rows).val)
                            ELSE targetMap,
                            minPercentage)

parseChecksAndCounters(rows) ==
    [i \in 1..Len(rows) |-> [name |-> ToLowerCase(rows[i].name), score |-> rows[i].score]]

\* parsePokemonEntry, for an entry whose name row matches
parsePokemonEntry(entry, options) ==
    PokemonUsageData(entry.nameRow, entry.rawCount, entry.viabilityCeiling,
                     parsePercentageMap(entry.moves, <<>>, options.minMovePercentage),
                     parsePercentageMap(entry.teammates, <<>>, 0),
                     IF options.includeChecksAndCounters
                     THEN parseChecksAndCounters(entry.checksAndCounters) ELSE <<>>)

RECURSIVE ParseEntries(_, _, _)
ParseEntries(result, entries, options) ==
    IF entries = <<>> THEN result
    ELSE ParseEntries(IF Head(entries).nameRow = NoMatch THEN result    \* if (pokemon)
                      ELSE MapSet(result, ToLowerCase(Head(entries).nameRow),
                                  parsePokemonEntry(Head(entries), options)),
                      Tail(entries), options)

\* parseUsageFile of a file that can be read
parseUsageFile(file, options) == ParseEntries(<<>>, file.entries, options)

(***************************************************************************)
(* SmogonModule.                                                           *)
(***************************************************************************)
MapDelete(m, k) == SelectSeq(m, LAMBDA e : e.key # k)

\* a variant of loadFormat without the dataCache.has test
loadFormatAgain(cache, fs, format, options) ==
    IF ~fs[format].exists
    THEN [cache |-> cache, read |-> TRUE, stored |-> FALSE, raised |-> TRUE]
    ELSE [cache |-> MapSet(cache, format, parseUsageFile(fs[format], options)),
          read |-> TRUE, stored |-> TRUE, raised |-> FALSE]

\* a variant of loadFormat that caches an empty map for a missing file
loadFormatKeepEmpty(cache, fs, format, options) ==
    IF MapHas(cache, format)
    THEN [cache |-> cache, read |-> FALSE, stored |-> FALSE, raised |-> FALSE]
    ELSE IF ~fs[format].exists
    THEN [cache |-> MapSet(cache, format, <<>>), read |-> TRUE, stored |-> FALSE, raised |-> TRUE]
    ELSE [cache |-> MapSet(cache, format, parseUsageFile(fs[format], options)),
          read |-> TRUE, stored |-> TRUE, raised |-> FALSE]

\* loadFormat(format, options) on the cache and the data directory fs:
\* what it leaves in the cache, whether it read the file, whether it parsed
\* and stored, and whether readFileSync raised.
loadFormat(cache, fs, format, options) ==
    IF MapHas(cache, format)
    THEN [cache |-> cache, read |-> FALSE, stored |-> FALSE, raised |-> FALSE]
    ELSE IF ~fs[format].exists
    THEN [cache |-> cache, read |-> TRUE, stored |-> FALSE, raised |-> TRUE]
    ELSE [cache |-> MapSet(cache, format, parseUsageFile(fs[format], options)),
          read |-> TRUE, stored |-> TRUE, raised |-> FALSE]

\* a variant of ensureFormatLoaded that parses the file on every call
ensureFormatReloaded(cache, fs, format) ==
    loadFormatAgain(cache, fs, format, DefaultOptions)

\* a variant of ensureFormatLoaded whose lazy load leaves out the checks and
\* counters
ensureFormatLoadedWithout(cache, fs, format) ==
    IF ~MapHas(cache, format)
    THEN loadFormat(cache, fs, format,
                    [DefaultOptions EXCEPT !.includeChecksAndCounters = FALSE])
    ELSE [cache |-> cache, read |-> FALSE, stored |-> FALSE, raised |-> FALSE]

\* ensureFormatLoaded(format): if (!this.dataCache.has(format)) this.loadFormat(format)
ensureFormatLoaded(cache, fs, format) ==
    IF ~MapHas(cache, format) THEN loadFormat(cache, fs, format, DefaultOptions)
    ELSE [cache |-> cache, read |-> FALSE, stored |-> FALSE, raised |-> FALSE]

\* if (format) ... : a string is truthy unless it is empty; NoArg is the
\* call clearCache() without an argument.
NoArg == "<undefined>"
Truthy(arg) == arg # NoArg /\ arg # ""

clearCache(cache, arg) ==
    IF Truthy(arg) THEN MapDelete(cache, arg) ELSE <<>>

getLoadedFormats(cache) == MapKeysSeq(cache)

\* The query methods, on the usage map of the requested format.
getPokemon(data, pokemonName) ==
    IF MapHas(data, ToLowerCase(pokemonName))
    THEN <<MapGet(data, ToLowerCase(pokemonName))>> ELSE <<>>     \* <<>> is undefined

getAllPokemon(data) == MapValues(data)

\* a variant of sortByUsage with the comparator's operands exchanged
sortByUsageAscending(data) == SortBy(MapValues(data), "rawCountAsc")

sortByUsage(data) == SortBy(MapValues(data), "rawCountDesc")

getTopPokemon(data, limit) == Take(sortByUsage(data), limit)

findPokemonWithMove(data, moveName, minPercentage) ==
    LET normalizedMove == ToLowerCase(moveName)
        \* if (movePercentage && movePercentage >= minPercentage)
        Has(i) == /\ MapHas(data[i].val.moves, normalizedMove)
                  /\ MapGet(data[i].val.moves, normalizedMove) # 0
                  /\ MapGet(data[i].val.moves, normalizedMove) >= minPercentage
        idx == SelectSeqIdx([i \in 1..Len(data) |-> Has(i)], 1, Len(data))
        results == [k \in 1..Len(idx) |->
                      [pokemon |-> data[idx[k]].key,
                       percentage |-> MapGet(data[idx[k]].val.moves, normalizedMove)]]
    IN  SortBy(results, "percentageDesc")

findCounters(data, threatName, minScore) ==
    LET threat == getPokemon(data, threatName)
        kept == SelectSeq(threat[1].checksAndCounters, LAMBDA c : c.score >= minScore)
    IN  IF threat = <<>> THEN <<>>
        ELSE SortBy([i \in 1..Len(kept) |-> [pokemon |-> kept[i].name, score |-> kept[i].score]],
                    "intScoreDesc")

(***************************************************************************)
(* The data directory and the arguments of the calls.                      *)
(***************************************************************************)
Formats == {"", "gen2ou-1760"}

EntrySnorlax ==
    [nameRow |-> "Snorlax", rawCount |-> 10000, viabilityCeiling |-> 1800,
     moves |-> << KV("Body Slam", 900), KV("Earthquake", 550), KV("Rest", 700),
                  KV("Other", 20) >>,
     teammates |-> << KV("Zapdos", 726), KV("Raikou", 300) >>,
     checksAndCounters |-> << [name |-> "Skarmory", score |-> 2] >>]

EntryZapdos ==
    [nameRow |-> "Zapdos", rawCount |-> 5000, viabilityCeiling |-> 1500,
     moves |-> << KV("Thunderbolt", 990), KV("Hidden Power Ice", 600), KV("Rest", 0),
                  KV("Other", 15) >>,
     teammates |-> << KV("Snorlax", 710) >>,
     checksAndCounters |-> << [name |-> "Snorlax", score |-> 3], [name |-> "Raikou", score |-> 1],
                              [name |-> "Skarmory", score |-> 5] >>]

\* as many uses as Zapdos, later in the file
EntryCloyster ==
    [nameRow |-> "Cloyster", rawCount |-> 5000, viabilityCeiling |-> 1500,
     moves |-> << KV("Rest", 800) >>,
     teammates |-> << KV("Snorlax", 400) >>,
     checksAndCounters |-> << [name |-> "Zapdos", score |-> 4] >>]

EntryBad ==
    [nameRow |-> NoMatch, rawCount |-> 1, viabilityCeiling |-> 0,
     moves |-> <<>>, teammates |-> <<>>, checksAndCounters |-> <<>>]

NoFile == [exists |-> FALSE, entries |-> <<>>]
FileA == [exists |-> TRUE,
          entries |-> << EntryZapdos, EntryBad, EntrySnorlax, EntryCloyster >>]
FileB == [exists |-> TRUE, entries |-> << EntryZapdos >>]

QueryNames == {"Snorlax", "MissingNo"}
ModuleTeams == { <<"Snorlax", "Zapdos", "MissingNo">> }
OptionChoices ==
    { DefaultOptions, [DefaultOptions EXCEPT !.includeChecksAndCounters = FALSE],
      [DefaultOptions EXCEPT !.minMovePercentage = 750] }

QueryOps == {"getPokemon", "getAllPokemon", "getTopPokemon", "findPokemonWithMove",
             "findCounters"}
AnalysisOps == {"calculateTeamSynergy", "suggestTeammates", "analyzeTeamWeaknesses",
                "findBlindSpots", "analyzeCoverage", "checkMoveRedundancy",
                "generateTeamReport"}

(***************************************************************************)
(* The operations of SmogonModule as actions.  res is what loadFormat or   *)
(* ensureFormatLoaded did; the value is computed from the cache it left.   *)
(***************************************************************************)
Data(res, format) == MapGet(res.cache, format)        \* this.dataCache.get(format)

Return(op, format, arg, res, raised, value) ==
    /\ dataCache' = res.cache
    /\ pre' = dataCache
    /\ parses' = [parses EXCEPT ![format] = IF res.stored THEN @ + 1 ELSE @]
    /\ ret' = [op |-> op, format |-> format, arg |-> arg,
               outcome |-> IF raised THEN "raised" ELSE "ok",
               read |-> res.read, stored |-> res.stored, value |-> value]
    /\ UNCHANGED <<files, team, usageData, content, loads, client, now, gets>>

LoadFormat(format, options) ==
    \E res \in {loadFormat(dataCache, files, format, options)} :
        Return("loadFormat", format, options, res, res.raised, <<>>)

GetPokemon(pokemonName, format) ==
    \E res \in {ensureFormatLoaded(dataCache, files, format)} :
        Return("getPokemon", format, pokemonName, res, res.raised,
               IF res.raised THEN <<>> ELSE getPokemon(Data(res, format), pokemonName))

GetAllPokemon(format) ==
    \E res \in {ensureFormatLoaded(dataCache, files, format)} :
        Return("getAllPokemon", format, <<>>, res, res.raised,
               IF res.raised THEN <<>> ELSE getAllPokemon(Data(res, format)))

GetTopPokemon(limit, format) ==
    \E res \in {ensureFormatLoaded(dataCache, files, format)} :
        Return("getTopPokemon", format, limit, res, res.raised,
               IF res.raised THEN <<>> ELSE getTopPokemon(Data(res, format), limit))

FindPokemonWithMove(moveName, minPercentage, format) ==
    \E res \in {ensureFormatLoaded(dataCache, files, format)} :
        Return("findPokemonWithMove", format, <<moveName, minPercentage>>, res, res.raised,
               IF res.raised THEN <<>>
               ELSE findPokemonWithMove(Data(res, format), moveName, minPercentage))

FindCounters(threatName, minScore, format) ==
    \E res \in {ensureFormatLoaded(dataCache, files, format)} :
        Return("findCounters", format, <<threatName, minScore>>, res, res.raised,
               IF res.raised THEN <<>>
               ELSE findCounters(Data(res, format), threatName, minScore))

\* calculateTeamSynergy ... generateTeamReport: ensureFormatLoaded, then the
\* analysis function on the format's usage map.
AnalysisRaises(op, t, data) ==
    CASE op = "analyzeCoverage" -> CoverageRaises(NormalizeTeam(t), data)
      [] op = "generateTeamReport" -> ReportRaises(t, data)
      [] OTHER -> FALSE

AnalysisValue(op, t, limit, data) ==
    CASE op = "calculateTeamSynergy" -> calculateTeamSynergy(t, data)
      [] op = "suggestTeammates" -> suggestTeammates(t, data, limit)
      [] op = "analyzeTeamWeaknesses" -> analyzeTeamWeaknesses(t, data)
      [] op = "findBlindSpots" -> findBlindSpots(t, data)
      [] op = "analyzeCoverage" -> analyzeCoverage(t, data)
      [] op = "checkMoveRedundancy" -> checkMoveRedundancy(t, data)
      [] op = "generateTeamReport" -> generateTeamReport(t, data)

Analyze(op, t, format) ==
    \E res \in {ensureFormatLoaded(dataCache, files, format)} :
        \E raised \in {res.raised \/ AnalysisRaises(op, t, Data(res, format))} :
            Return(op, format, t, res, raised,
                   IF raised THEN <<>> ELSE AnalysisValue(op, t, 5, Data(res, format)))

ClearCache(arg) ==
    /\ dataCache' = clearCache(dataCache, arg)
    /\ pre' = dataCache
    /\ parses' = [f \in Formats |-> IF MapHas(dataCache', f) THEN parses[f] ELSE 0]
    /\ ret' = [op |-> "clearCache", format |-> arg, arg |-> arg, outcome |-> "ok",
               read |-> FALSE, stored |-> FALSE, value |-> <<>>]
    /\ UNCHANGED <<files, team, usageData, content, loads, client, now, gets>>

GetLoadedFormats ==
    /\ ret' = [op |-> "getLoadedFormats", format |-> NoArg, arg |-> <<>>, outcome |-> "ok",
               read |-> FALSE, stored |-> FALSE, value |-> getLoadedFormats(dataCache)]
    /\ pre' = dataCache
    /\ UNCHANGED <<files, dataCache, parses, team, usageData, content, loads, client, now, gets>>

NoCall == [op |-> "none", format |-> NoArg, arg |-> <<>>, outcome |-> "ok",
           read |-> FALSE, stored |-> FALSE, value |-> <<>>]

Init ==
    /\ files \in [Formats -> {NoFile, FileA, FileB}]
    /\ dataCache = <<>>                         \* new Map()
    /\ parses = [f \in Formats |-> 0]
    /\ pre = <<>>
    /\ ret = NoCall
    /\ team = <<>>
    /\ usageData = <<>>
    /\ content = <<>>
    /\ loads = <<>>
    /\ ClientUnused

Next ==
    \/ \E f \in Formats, o \in OptionChoices : LoadFormat(f, o)
    \/ \E f \in Formats, n \in QueryNames : GetPokemon(n, f)
    \/ \E f \in Formats : GetAllPokemon(f)
    \/ \E f \in Formats, k \in {1, 3} : GetTopPokemon(k, f)
    \/ \E f \in Formats, m \in {"Earthquake", "rest"}, p \in {0, 750} :
          FindPokemonWithMove(m, p, f)
    \/ \E f \in Formats, n \in QueryNames \cup {"Zapdos"} : FindCounters(n, 2, f)
    \/ \E f \in Formats, op \in AnalysisOps, t \in ModuleTeams : Analyze(op, t, f)
    \/ \E arg \in Formats \cup {NoArg} : ClearCache(arg)
    \/ GetLoadedFormats

Spec == Init /\ [][Next]_vars

(***************************************************************************)
(* The format cache.                                                       *)
(***************************************************************************)
IsCall(ops) == ret.op \in ops

\* C1: between two evictions a format's file is parsed and stored at most
\* once, whether the first load was a loadFormat call or the lazy load of a
\* query or an analysis, and a loadFormat call on a format that is already
\* cached reads nothing and leaves the whole cache, hence the format's
\* name -> profile map, as it was.
C1_LoadedAtMostOnce ==
    /\ \A f \in Formats : parses[f] <= 1
    /\ (IsCall({"loadFormat"}) /\ MapHas(pre, ret.format)) =>
          (dataCache = pre /\ ~ret.read /\ ~ret.stored /\ ret.outcome = "ok")

C1_SecondLoad ==
    /\ IsCall({"loadFormat"})
    /\ MapHas(pre, ret.format)
    /\ parses[ret.format] = 1
    /\ ret.arg # DefaultOptions
    /\ MapGet(dataCache, ret.format) = parseUsageFile(files[ret.format], DefaultOptions)
    /\ MapGet(dataCache, ret.format) # parseUsageFile(files[ret.format], ret.arg)

\* C2 (as the specification states it): a query method never raises; when
\* the requested format or the requested name is absent it returns an empty
\* or absent result.
C2_QueryNeverRaises ==
    IsCall(QueryOps) =>
        /\ ret.outcome = "ok"
        /\ (~MapHas(dataCache, ret.format) => ret.value = <<>>)

\* getPokemon and the other queries on a format that is not cached and has
\* no file: the lazy load raises
C2_QueryRaises ==
    /\ IsCall(QueryOps)
    /\ ret.outcome = "raised"
    /\ ret.read
    /\ ~files[ret.format].exists
    /\ ~MapHas(pre, ret.format)

\* C3: loadFormat of a format that is not cached and whose file is missing
\* raises, leaves the cache exactly as it was (the format is not listed,
\* every cached format keeps its map), and caches no failure: the next
\* loadFormat of the same format reads the file again.
C3_FailedLoad ==
    (IsCall({"loadFormat"}) /\ ~MapHas(pre, ret.format) /\ ~files[ret.format].exists) =>
        /\ ret.outcome = "raised"
        /\ ret.read
        /\ dataCache = pre
        /\ ~MapHas(dataCache, ret.format)
        /\ ret.format \notin Range(getLoadedFormats(dataCache))
        /\ loadFormat(dataCache, files, ret.format, DefaultOptions).read

C3_FailedLoadBesideCached ==
    /\ IsCall({"loadFormat"})
    /\ ret.outcome = "raised"
    /\ ~files[ret.format].exists
    /\ Len(pre) = 1
    /\ dataCache = pre

\* C4 (as the specification states it): clearCache(f) with any string f,
\* the empty string included, evicts f and nothing else; clearCache()
\* evicts everything; getLoadedFormats lists exactly the cached formats.
C4_ClearEvictsExactly ==
    /\ (IsCall({"clearCache"}) /\ ret.arg # NoArg) => dataCache = MapDelete(pre, ret.arg)
    /\ (IsCall({"clearCache"}) /\ ret.arg = NoArg) => dataCache = <<>>
    /\ IsCall({"getLoadedFormats"}) => ret.value = MapKeysSeq(dataCache)

\* clearCache("") with another format cached: the empty string is falsy and
\* the whole cache is cleared
C4_EmptyStringClearsAll ==
    /\ IsCall({"clearCache"})
    /\ ret.arg = ""
    /\ MapHas(pre, "gen2ou-1760")
    /\ dataCache = <<>>

(***************************************************************************)
(* The synergy functions on hand-built usage maps.  The three profiles     *)
(* list each other, a name outside the map ("raikou", once capitalised)    *)
(* and the lower-case form of the unknown team name; Absent leaves the     *)
(* teammate entry out.                                                     *)
(***************************************************************************)
Absent == -1
SynergyNames == {"Snorlax", "Zapdos", "cloyster", "MissingNo"}

Teammates(rows) ==
    SelectSeq(rows, LAMBDA e : e.val # Absent)

SynergyMap(p1, p2, p3) ==
    << KV("snorlax", PokemonUsageData("Snorlax", 10000, 1800, <<>>,
            Teammates(<< KV("zapdos", p1), KV("raikou", 300) >>), <<>>)),
       KV("zapdos", PokemonUsageData("Zapdos", 5000, 1500, <<>>,
            Teammates(<< KV("snorlax", p2), KV("missingno", 200), KV("Raikou", 100),
                         KV("cloyster", p3) >>), <<>>)),
       KV("cloyster", PokemonUsageData("Cloyster", 2500, 1500, <<>>,
            Teammates(<< KV("snorlax", 100), KV("starmie", 250) >>), <<>>)) >>

SynergyMaps ==
    { SynergyMap(p1, p2, p3) : p1 \in {Absent, 100, 726}, p2 \in {Absent, 400, 710},
                               p3 \in {Absent, 400, 900} }

Call(op, arg, value) ==
    [op |-> op, format |-> NoArg, arg |-> arg, outcome |-> "ok",
     read |-> FALSE, stored |-> FALSE, value |-> value]

Raise(op, arg) ==
    [op |-> op, format |-> NoArg, arg |-> arg, outcome |-> "raised",
     read |-> FALSE, stored |-> FALSE, value |-> <<>>]

CalculateTeamSynergy ==
    /\ ret' = Call("calculateTeamSynergy", team, calculateTeamSynergy(team, usageData))
    /\ UNCHANGED <<files, dataCache, parses, pre, team, usageData, content, loads,
                   client, now, gets>>

SuggestTeammates(limit) ==
    /\ ret' = Call("suggestTeammates", limit, suggestTeammates(team, usageData, limit))
    /\ UNCHANGED <<files, dataCache, parses, pre, team, usageData, content, loads,
                   client, now, gets>>

InitSynergy ==
    /\ files = [f \in Formats |-> NoFile]
    /\ dataCache = <<>>
    /\ parses = [f \in Formats |-> 0]
    /\ pre = <<>>
    /\ ret = NoCall
    /\ team \in SeqsUpTo(SynergyNames, MaxTeam)
    /\ usageData \in SynergyMaps
    /\ content = <<>>
    /\ loads = <<>>
    /\ ClientUnused

NextSynergy ==
    \/ CalculateTeamSynergy
    \/ \E limit \in 0..MaxLimit : SuggestTeammates(limit)

SpecSynergy == InitSynergy /\ [][NextSynergy]_vars

\* What the claims about synergy speak of, stated from the inputs.
Known(t, usage) == SelectSeq(NormalizeTeam(t), LAMBDA name : MapHas(usage, name))

\* one direction of a pair: the percentage the source lists for the target,
\* 0 when it lists none
Direction(usage, source, target) ==
    LET hits == SelectSeq(MapGet(usage, source).teammates, LAMBDA e : e.key = target)
    IN  IF hits = <<>> THEN 0 ELSE hits[1].val

PairScore(usage, a, b) == Rat(Direction(usage, a, b) + Direction(usage, b, a), 20)

\* the scores of all pairs of positions i < j of the known members
AllPairScores(t, usage) ==
    LET known == Known(t, usage)
        n == Len(known)
    IN  [k \in 1..((n * (n - 1)) \div 2) |->
           LET ij == CHOOSE ij \in (1..n) \X (1..n) :
                        /\ ij[1] < ij[2]
                        /\ k = Cardinality({ xy \in (1..n) \X (1..n) :
                                  /\ xy[1] < xy[2]
                                  /\ (xy[1] < ij[1] \/ (xy[1] = ij[1] /\ xy[2] <= ij[2])) })
           IN  PairScore(usage, known[ij[1]], known[ij[2]])]

MeanTimesTwo(scores) ==
    IF scores = <<>> THEN RInt(0)
    ELSE RMin(RInt(100), RDivInt(RMul(RSum(scores), RInt(2)), Len(scores)))

HasDuplicate(s) == \E i, j \in 1..Len(s) : i < j /\ s[i] = s[j]

\* C6 (as the specification states it): calculateTeamSynergy scores every
\* pair of known team members as the mean of the two directional teammate
\* percentages, and its overall score is min(100, 2 x the mean of all pair
\* scores), 0 without a pair; 72.6 and 71.0 give one strong pair of 71.8 and
\* the overall score 100.
C6_OverallIsTwiceMean ==
    IsCall({"calculateTeamSynergy"}) =>
        /\ REq(ret.value.score, MeanTimesTwo(AllPairScores(team, usageData)))
        /\ (/\ team = <<"Snorlax", "Zapdos">>
            /\ Direction(usageData, "snorlax", "zapdos") = 726
            /\ Direction(usageData, "zapdos", "snorlax") = 710)
           => /\ ret.value.strongPairs =
                    << [pokemon1 |-> "snorlax", pokemon2 |-> "zapdos", score |-> Rat(718, 10)] >>
              /\ ret.value.weakPairs = <<>>
              /\ ret.value.score = RInt(100)

\* the mean is taken over the distinct `name|name` keys although the team
\* holds a name twice
C6_DuplicateNamesShareKey ==
    /\ IsCall({"calculateTeamSynergy"})
    /\ team = <<"Snorlax", "Snorlax", "Zapdos">>
    /\ Direction(usageData, "snorlax", "zapdos") = 100
    /\ Direction(usageData, "zapdos", "snorlax") = 400
    /\ ret.value.score = RInt(25)
    /\ MeanTimesTwo(AllPairScores(team, usageData)) = Rat(100, 3)
    /\ Len(ret.value.weakPairs) = 1 /\ Len(ret.value.strongPairs) = 0

\* on a team without a repeated known name the overall score is the claimed one
C6_DistinctNames ==
    (IsCall({"calculateTeamSynergy"}) /\ ~HasDuplicate(Known(team, usageData))) =>
        REq(ret.value.score, MeanTimesTwo(AllPairScores(team, usageData)))

IsPairOfKnown(pair, t, usage) ==
    \E i, j \in 1..Len(t) :
        /\ i < j
        /\ pair.pokemon1 = NormalizeTeam(t)[i] /\ pair.pokemon2 = NormalizeTeam(t)[j]
        /\ MapHas(usage, pair.pokemon1) /\ MapHas(usage, pair.pokemon2)
        /\ pair.score = PairScore(usage, pair.pokemon1, pair.pokemon2)

CountWhere(scores, Test(_)) == Len(SelectSeq(scores, Test))

\* C7: the strong pairs (score >= 30) and the weak pairs (score < 15) are
\* disjoint, each is a pair of two known team members with its pair score,
\* every pair of known members is listed as strong exactly when it scores
\* >= 30 and as weak exactly when it scores < 15, so a pair in [15, 30) is
\* in neither list; strong pairs are sorted descending and weak pairs
\* ascending by score.
C7_StrongWeakPartition ==
    IsCall({"calculateTeamSynergy"}) =>
        LET strong == ret.value.strongPairs
            weak == ret.value.weakPairs
            all == AllPairScores(team, usageData)
        IN  /\ Range(strong) \cap Range(weak) = {}
            /\ \A pair \in Range(strong) :
                  IsPairOfKnown(pair, team, usageData) /\ RLe(RInt(30), pair.score)
            /\ \A pair \in Range(weak) :
                  IsPairOfKnown(pair, team, usageData) /\ RLt(pair.score, RInt(15))
            /\ Len(strong) = CountWhere(all, LAMBDA x : RLe(RInt(30), x))
            /\ Len(weak) = CountWhere(all, LAMBDA x : RLt(x, RInt(15)))
            /\ \A i \in 1..(Len(strong) - 1) : RLe(strong[i + 1].score, strong[i].score)
            /\ \A i \in 1..(Len(weak) - 1) : RLe(weak[i].score, weak[i + 1].score)

C7_AllThreeBands ==
    /\ IsCall({"calculateTeamSynergy"})
    /\ Len(ret.value.strongPairs) = 1
    /\ Len(ret.value.weakPairs) = 1
    /\ Len(AllPairScores(team, usageData)) = 3
    /\ \E x \in Range(AllPairScores(team, usageData)) : RLe(RInt(15), x) /\ RLt(x, RInt(30))

\* the requested team without the names the usage map does not hold
Filtered(t, usage) == SelectSeq(t, LAMBDA name : MapHas(usage, ToLowerCase(name)))

\* what the known members list, in total, for a candidate (tenths of a percent)
Accumulated(t, usage, candidate) ==
    LET known == Known(t, usage)
    IN  SumSeq([i \in 1..Len(known) |->
                  SumSeq([k \in 1..Len(MapGet(usage, known[i]).teammates) |->
                            LET e == MapGet(usage, known[i]).teammates[k]
                            IN  IF ToLowerCase(e.key) = candidate THEN e.val ELSE 0])])

SortedDescending(list) == \A i \in 1..(Len(list) - 1) : RLe(list[i + 1].score, list[i].score)

SuggestionBounds(list, t, limit) ==
    /\ Len(list) <= limit
    /\ SortedDescending(list)
    /\ \A c \in Range(list) : c.name \notin Range(NormalizeTeam(t))

\* C8 (as the specification states it): the results of calculateTeamSynergy
\* and of suggestTeammates equal those for the team with the unknown names
\* removed; at most N suggestions, sorted descending, none a team member.
C8_EqualsFilteredTeam ==
    /\ IsCall({"calculateTeamSynergy"}) =>
          ret.value = calculateTeamSynergy(Filtered(team, usageData), usageData)
    /\ IsCall({"suggestTeammates"}) =>
          /\ ret.value = suggestTeammates(Filtered(team, usageData), usageData, ret.arg)
          /\ SuggestionBounds(ret.value, team, ret.arg)

\* C8: an unknown team member contributes no pair and no percentage: the
\* overall score, the strong pairs and the weak pairs are those of the team
\* without the unknown names.  A suggestion's score is the percentage the
\* known members list for it in total divided by the length of the requested
\* team, unknown names counted, and no name of the requested team, known or
\* not, is suggested: the suggestions are those of the team without the
\* unknown names, less the names of the requested team, rescaled by
\* known / requested length, cut to N; sorted descending.
C8_UnknownMembers ==
    /\ IsCall({"calculateTeamSynergy"}) =>
          LET filtered == calculateTeamSynergy(Filtered(team, usageData), usageData)
          IN  /\ ret.value.score = filtered.score
              /\ ret.value.strongPairs = filtered.strongPairs
              /\ ret.value.weakPairs = filtered.weakPairs
              /\ SuggestionBounds(ret.value.suggestedTeammates, team, 10)
    /\ IsCall({"suggestTeammates"}) =>
          LET short == Filtered(team, usageData)
              all == suggestTeammates(short, usageData, 10)
              kept == SelectSeq(all, LAMBDA c : c.name \notin Range(NormalizeTeam(team)))
              rescaled == [i \in 1..Len(kept) |->
                             [name |-> kept[i].name,
                              score |-> RDivInt(RMul(kept[i].score, RInt(Len(short))),
                                                Len(team))]]
          IN  /\ ret.value = Take(rescaled, ret.arg)
              /\ SuggestionBounds(ret.value, team, ret.arg)
              /\ \A c \in Range(ret.value) :
                    c.score = Rat(Accumulated(team, usageData, c.name), 10 * Len(team))

C8_UnknownNameOnTeam ==
    /\ IsCall({"suggestTeammates"})
    /\ team = <<"Zapdos", "MissingNo">>
    /\ ret.arg = 2
    /\ Len(ret.value) = 2
    /\ ret.value[1] = [name |-> "snorlax", score |-> RInt(20)]
    /\ suggestTeammates(<<"Zapdos">>, usageData, 2)[1] = [name |-> "snorlax", score |-> RInt(40)]
    /\ \E c \in Range(suggestTeammates(<<"Zapdos">>, usageData, 10)) : c.name = "missingno"

(***************************************************************************)
(* The blind spots of a team on hand-built usage maps: snorlax, zapdos and *)
(* cloyster list the threats skarmory and raikou, in either letter case.   *)
(***************************************************************************)
ThreatNames == {"Snorlax", "Zapdos", "cloyster", "MissingNo"}
PadNames == {"snorlax", "MissingNo"}

\* a team of any names followed by a padding of a repeated and an unknown name
ThreatTeams ==
    { head \o pad : head \in SeqsUpTo(ThreatNames, MaxThreatHead),
                    pad \in SeqsUpTo(PadNames, MaxThreatPad) }

Counter(name, score) == [name |-> name, score |-> score]

ThreatMap(listed, r) ==
    << KV("snorlax", PokemonUsageData("Snorlax", 10000, 1800, <<>>, <<>>,
            << Counter("Skarmory", 2), Counter("raikou", r) >>)),
       KV("zapdos", PokemonUsageData("Zapdos", 5000, 1500, <<>>, <<>>,
            << Counter("skarmory", 3), Counter("Raikou", 1) >>)),
       KV("cloyster", PokemonUsageData("Cloyster", 2500, 1500, <<>>, <<>>,
            (IF listed THEN << Counter("skarmory", 1) >> ELSE <<>>)
               \o << Counter("Raikou", 4) >>)) >>

\* a map whose zapdos and cloyster both list seven more threats, and whose
\* cloyster lists the most used profile of the map with a score of 9
CrowdNames ==
    << "gengar", "exeggutor", "tyranitar", "starmie", "machamp", "golem", "jynx" >>

Crowd == [i \in 1..Len(CrowdNames) |-> Counter(CrowdNames[i], 1)]

CrowdedMap ==
    [ThreatMap(TRUE, 5) EXCEPT ![2].val.checksAndCounters = @ \o Crowd,
                               ![3].val.checksAndCounters =
                                   @ \o << Counter("Snorlax", 9) >> \o Crowd]

\* the teams analysed on the crowded map
CrowdTeams == SeqsUpTo({"Zapdos", "cloyster"}, 2)

\* the crowded map with a snorlax that lists a threat of its own and is
\* itself checked by cloyster and zapdos: more than ten threats for a team
\* with snorlax, and threats with a profile that names team members
WideMap ==
    [CrowdedMap EXCEPT ![1].val.checksAndCounters =
        @ \o << Counter("alakazam", 8), Counter("Cloyster", 3), Counter("Zapdos", 6) >>]

\* the teams analysed on the wide map; raikou has no profile
WideTeams == SeqsUpTo({"cloyster", "Zapdos", "Snorlax", "raikou"}, 2)

ThreatMaps == { ThreatMap(listed, r) : listed \in BOOLEAN, r \in {1, 5} }

FindBlindSpots ==
    /\ ret' = Call("findBlindSpots", team, findBlindSpots(team, usageData))
    /\ UNCHANGED <<files, dataCache, parses, pre, team, usageData, content, loads,
                   client, now, gets>>

AnalyzeTeamWeaknesses ==
    /\ ret' = Call("analyzeTeamWeaknesses", team, analyzeTeamWeaknesses(team, usageData))
    /\ UNCHANGED <<files, dataCache, parses, pre, team, usageData, content, loads,
                   client, now, gets>>

InitThreat ==
    /\ files = [f \in Formats |-> NoFile]
    /\ dataCache = <<>>
    /\ parses = [f \in Formats |-> 0]
    /\ pre = <<>>
    /\ ret = NoCall
    /\ \/ team \in ThreatTeams /\ usageData \in ThreatMaps
       \/ team \in CrowdTeams /\ usageData = CrowdedMap
    /\ content = <<>>
    /\ loads = <<>>
    /\ ClientUnused

NextThreat ==
    \/ FindBlindSpots
    \/ AnalyzeTeamWeaknesses

SpecThreat == InitThreat /\ [][NextThreat]_vars

BlindSpotsReturned ==
    IF ret.op = "findBlindSpots" THEN ret.value ELSE ret.value.blindSpots

\* the distinct team members that list the threat among their counters, and
\* the scores they list for it, one per listing member of the team list
Threatened(t, usage, threat) ==
    { m \in Range(Known(t, usage)) :
        \E c \in Range(MapGet(usage, m).checksAndCounters) : ToLowerCase(c.name) = threat }

ThreatScores(t, usage, threat) ==
    LET known == Known(t, usage)
        Listed(i) == SelectSeq(MapGet(usage, known[i]).checksAndCounters,
                               LAMBDA c : ToLowerCase(c.name) = threat)
    IN  [total |-> SumSeq([i \in 1..Len(known) |->
                             SumSeq([k \in 1..Len(Listed(i)) |-> Listed(i)[k].score])]),
         count |-> SumSeq([i \in 1..Len(known) |-> Len(Listed(i))])]

AllThreatNames(usage) ==
    { ToLowerCase(c.name) : c \in UNION { Range(e.val.checksAndCounters) : e \in Range(usage) } }

\* max(2, ceil(teamSize x 0.33)), in integers: the least k >= 2 with 100 k >= 33 teamSize
ClaimedThreshold(teamSize) ==
    CHOOSE k \in 2..(teamSize + 2) :
        /\ 100 * k >= 33 * teamSize
        /\ \A j \in 2..(k - 1) : 100 * j < 33 * teamSize

\* C9: with teamSize the length of the requested team list, the blind spots
\* of findBlindSpots and of analyzeTeamWeaknesses are exactly the threats
\* that threaten at least max(2, ceil(teamSize x 0.33)) distinct team
\* members, each once, with these members (at least 2) and the mean of the
\* listed scores, ordered by the number of members threatened, descending,
\* then by the mean score, descending; a threat listed by 3 of 4 members is
\* a blind spot.
C9_BlindSpots ==
    IsCall({"findBlindSpots", "analyzeTeamWeaknesses"}) =>
        LET spots == BlindSpotsReturned
            threshold == ClaimedThreshold(Len(team))
        IN  /\ { b.pokemon : b \in Range(spots) } =
                  { x \in AllThreatNames(usageData) :
                      Cardinality(Threatened(team, usageData, x)) >= threshold }
            /\ \A i, j \in 1..Len(spots) : spots[i].pokemon = spots[j].pokemon => i = j
            /\ \A b \in Range(spots) :
                  /\ Range(b.threatens) = Threatened(team, usageData, b.pokemon)
                  /\ Len(b.threatens) = Cardinality(Range(b.threatens))
                  /\ Len(b.threatens) >= 2
                  /\ LET s == ThreatScores(team, usageData, b.pokemon)
                     IN  b.avgScore.n * s.count = s.total * b.avgScore.d
            /\ \A i \in 1..(Len(spots) - 1) :
                  \/ Len(spots[i].threatens) > Len(spots[i + 1].threatens)
                  \/ /\ Len(spots[i].threatens) = Len(spots[i + 1].threatens)
                     /\ RLe(spots[i + 1].avgScore, spots[i].avgScore)
            /\ (Len(team) = 4 /\ \E x \in AllThreatNames(usageData) :
                                    Cardinality(Threatened(team, usageData, x)) = 3)
               => spots # <<>>

\* a team of seven: the threat of three members is a blind spot, the threat
\* of two is not, although two suffice for the three known members alone
C9_ThresholdOfThree ==
    /\ IsCall({"findBlindSpots"})
    /\ Len(team) = 7
    /\ Len(Known(team, usageData)) = 3
    /\ Len(ret.value) = 1
    /\ ret.value[1].pokemon = "raikou"
    /\ Len(ret.value[1].threatens) = 3
    /\ Cardinality(Threatened(team, usageData, "skarmory")) = 2
    /\ Len(findBlindSpots(Filtered(team, usageData), usageData)) = 2

(***************************************************************************)
(* Coverage, redundancy and the team report on hand-built usage maps with  *)
(* capitalised move names.  The variable move of zapdos and the usage of   *)
(* the fifth move of snorlax decide what the top four moves are.           *)
(***************************************************************************)
ReportNames == {"Snorlax", "Zapdos", "cloyster", "MissingNo"}

VariableMoves ==
    {"Other", "Hidden Power", "Hidden Power [Bug]", "Hidden Power [ice]",
     "Hidden Power [constructor]"}

ReportMap(move, pm, ps) ==
    << KV("snorlax", PokemonUsageData("Snorlax", 10000, 1800,
            << KV("Cross Chop", 900), KV("Earthquake", 800), KV("Thunderbolt", 700),
               KV("Ice Beam", 600), KV("Shadow Ball", ps) >>,
            << KV("zapdos", 726), KV("raikou", 300) >>,
            << Counter("Skarmory", 2), Counter("raikou", 5) >>)),
       KV("zapdos", PokemonUsageData("Zapdos", 5000, 1500,
            << KV("Psychic", 900), KV("Fire Blast", 800), KV("Rest", 640),
               KV("Toxic", 600), KV(move, pm) >>,
            << KV("snorlax", 710), KV("missingno", 200) >>,
            << Counter("skarmory", 3), Counter("Raikou", 1) >>)),
       KV("cloyster", PokemonUsageData("Cloyster", 2500, 1500,
            << KV("Surf", 900), KV("Ice Beam", 850), KV("Cross Chop", 500) >>,
            << KV("snorlax", 100) >>,
            << Counter("Raikou", 4) >>)) >>

ReportMaps ==
    { ReportMap(move, pm, ps) : move \in VariableMoves, pm \in {10, 700}, ps \in {100, 950} }

AnalyzeCoverage ==
    /\ ret' = IF CoverageRaises(NormalizeTeam(team), usageData)
              THEN Raise("analyzeCoverage", team)
              ELSE Call("analyzeCoverage", team, analyzeCoverage(team, usageData))
    /\ UNCHANGED <<files, dataCache, parses, pre, team, usageData, content, loads,
                   client, now, gets>>

CheckMoveRedundancy ==
    /\ ret' = Call("checkMoveRedundancy", team, checkMoveRedundancy(team, usageData))
    /\ UNCHANGED <<files, dataCache, parses, pre, team, usageData, content, loads,
                   client, now, gets>>

GenerateTeamReport ==
    /\ ret' = IF ReportRaises(team, usageData)
              THEN Raise("generateTeamReport", team)
              ELSE Call("generateTeamReport", team, generateTeamReport(team, usageData))
    /\ UNCHANGED <<files, dataCache, parses, pre, team, usageData, content, loads,
                   client, now, gets>>

InitReport ==
    /\ files = [f \in Formats |-> NoFile]
    /\ dataCache = <<>>
    /\ parses = [f \in Formats |-> 0]
    /\ pre = <<>>
    /\ ret = NoCall
    /\ team \in SeqsUpTo(ReportNames, MaxTeam)
    /\ usageData \in ReportMaps
    /\ content = <<>>
    /\ loads = <<>>
    /\ ClientUnused

NextReport ==
    \/ AnalyzeCoverage
    \/ CheckMoveRedundancy
    \/ GenerateTeamReport

SpecReport == InitReport /\ [][NextReport]_vars

\* the moves of a profile that are among its four most used, ties in the
\* order of the profile
FourMostUsed(data) ==
    { data.moves[i].key : i \in { i \in 1..Len(data.moves) :
        Cardinality({ j \in 1..Len(data.moves) :
            \/ data.moves[j].val > data.moves[i].val
            \/ (data.moves[j].val = data.moves[i].val /\ j < i) }) < 4 } }

\* the number of (member, top-4 move) occurrences whose resolved type is
\* strong against the type
CoverageCount(t, usage, type) ==
    LET known == Known(t, usage)
    IN  SumSeq([i \in 1..Len(known) |->
                  Cardinality({ move \in FourMostUsed(MapGet(usage, known[i])) :
                      /\ getMoveType(move) \in Range(ALL_TYPES)
                      /\ type \in Strong(getMoveType(move)) })])

UncoveredTypes(t, usage) == { type \in Range(ALL_TYPES) : CoverageCount(t, usage, type) = 0 }

\* C10: whenever analyzeCoverage returns, the count it reports for each of
\* the 17 types is the number of (member, top-4 move) occurrences whose
\* resolved type is strong against the type, gaps lists exactly the types
\* with count zero, each once, and coverageScore is the number of types
\* with a count above zero / 17 x 100; when only Ghost and Psychic have no
\* such occurrence, gaps is {Ghost, Psychic}.
C10_GapsAndScore ==
    (IsCall({"analyzeCoverage"}) /\ ret.outcome = "ok") =>
        LET report == ret.value
        IN  /\ MapKeysSeq(report.coverageByType) = ALL_TYPES
            /\ \A e \in Range(report.coverageByType) :
                  e.val = CoverageCount(team, usageData, e.key)
            /\ Range(report.gaps) = UncoveredTypes(team, usageData)
            /\ Len(report.gaps) = Cardinality(UncoveredTypes(team, usageData))
            /\ report.coverageScore =
                  Rat((17 - Cardinality(UncoveredTypes(team, usageData))) * 100, 17)
            /\ UncoveredTypes(team, usageData) = {"Ghost", "Psychic"}
                  => (Range(report.gaps) = {"Ghost", "Psychic"}
                      /\ report.coverageScore = Rat(1500, 17))

\* Cross Chop, Earthquake, Thunderbolt, Ice Beam, Psychic and Fire Blast
\* cover all but Ghost and Psychic; the fifth move of snorlax, Shadow Ball,
\* would cover both
C10_GhostAndPsychic ==
    /\ IsCall({"analyzeCoverage"})
    /\ ret.outcome = "ok"
    /\ team = <<"Snorlax", "Zapdos">>
    /\ MapHas(MapGet(usageData, "snorlax").moves, "Shadow Ball")
    /\ ret.value.gaps = <<"Psychic", "Ghost">>
    /\ ret.value.coverageScore = Rat(1500, 17)

IsWholePercent(x) == RIsInt(x) /\ RLe(RInt(0), x) /\ RLe(x, RInt(100))

\* C5 (as the specification states it): generateTeamReport raises no
\* exception, and its overallScore, like the synergy, defensive, coverage
\* and meta-alignment scores it is built from, is an integer in [0, 100].
C5_ReportScores ==
    IsCall({"generateTeamReport"}) =>
        /\ ret.outcome = "ok"
        /\ ret.value.overallScore \in 0..100
        /\ IsWholePercent(ret.value.synergy.score)
        /\ IsWholePercent(ret.value.weaknesses.defensiveScore)
        /\ IsWholePercent(ret.value.coverage.coverageScore)
        /\ IsWholePercent(ret.value.meta.metaAlignmentScore)

\* "Hidden Power [constructor]" among the top four moves of a member
C5_ReportRaises ==
    /\ IsCall({"generateTeamReport"})
    /\ ret.outcome = "raised"
    /\ team = <<"Zapdos">>
    /\ "Hidden Power [constructor]" \in FourMostUsed(MapGet(usageData, "zapdos"))

\* whenever generateTeamReport returns, overallScore is an integer in
\* [0, 100] and the scores it is built from lie in [0, 100]
C5_ReturnedScores ==
    (IsCall({"generateTeamReport"}) /\ ret.outcome = "ok") =>
        /\ ret.value.overallScore \in 0..100
        /\ \A x \in { ret.value.synergy.score, ret.value.weaknesses.defensiveScore,
                      ret.value.coverage.coverageScore,
                      ret.value.meta.metaAlignmentScore } :
              RLe(RInt(0), x) /\ RLe(x, RInt(100))

\* a report without an exception whose coverage score is not an integer
C5_FractionalScore ==
    /\ IsCall({"generateTeamReport"})
    /\ ret.outcome = "ok"
    /\ ~RIsInt(ret.value.coverage.coverageScore)

(***************************************************************************)
(* Loaded profiles under the coverage analyses (specification Spec).       *)
(***************************************************************************)
\* the entries of a file that parse to a member of the team
EntriesOnTeam(file, t) ==
    { e \in Range(file.entries) :
        e.nameRow # NoMatch /\ ToLowerCase(e.nameRow) \in Range(NormalizeTeam(t)) }

\* a label, as the file writes it, that getMoveType resolves to a type of the chart
IsTypedLabel(label) == getMoveType(label) # Null /\ HasOwnType(getMoveType(label))

\* the file lists a typed move among the four most used moves of some member
FileListsTypedMove(file, t) ==
    \E e \in EntriesOnTeam(file, t) : \E m \in Range(TopMoves(e)) : IsTypedLabel(m.key)

\* C11 (as the specification states it): a team loaded from a file whose
\* Moves sections list a move of the name -> type table or a Hidden Power
\* move among a member's four most used moves has these moves resolved by
\* analyzeCoverage: coverageScore > 0 and fewer than 17 gaps.
C11_LoadedMovesCover ==
    (/\ IsCall({"analyzeCoverage"})
     /\ ret.outcome = "ok"
     /\ FileListsTypedMove(files[ret.format], ret.arg)) =>
        /\ RLt(RInt(0), ret.value.coverageScore)
        /\ Len(ret.value.gaps) < 17

\* analyzeCoverage on a team loaded from a file that lists Earthquake,
\* Thunderbolt and Hidden Power Ice: the labels are stored in lowercase, none
\* resolves, every type is a gap
C11_LoadedMovesUncovered ==
    /\ IsCall({"analyzeCoverage"})
    /\ ret.outcome = "ok"
    /\ FileListsTypedMove(files[ret.format], ret.arg)
    /\ MapHas(MapGet(dataCache, ret.format), "snorlax")
    /\ MapHas(MapGet(MapGet(dataCache, ret.format), "snorlax").moves, "earthquake")
    /\ REq(ret.value.coverageScore, RInt(0))
    /\ ret.value.gaps = ALL_TYPES

IsCatchAll(label) == ToLowerCase(label) = "other"
NotCatchAll(entry) == ~IsCatchAll(entry.key)

\* C12 (as the specification states it): for every team, teams of loaded
\* profiles included, the catch-all label is in no member's considered top-4
\* moves, is never a key of duplicateMoves and adds nothing to
\* redundancyScore = min(100, 15 x sum(groupSize - 1) + 10 x excessive groups).
C12_CatchAllNeverAMove ==
    (IsCall({"checkMoveRedundancy"}) /\ ret.outcome = "ok") =>
        LET data == MapGet(dataCache, ret.format)
            score == 15 * TotalDuplicates(SelectSeq(ret.value.duplicateMoves, NotCatchAll))
                     + 10 * Len(ret.value.excessiveCoverage)
        IN  /\ \A m \in Range(KnownMembers(NormalizeTeam(ret.arg), data)) :
                  \A e \in Range(ConsideredMoves(MapGet(data, m))) : NotCatchAll(e)
            /\ \A e \in Range(ret.value.duplicateMoves) : NotCatchAll(e)
            /\ ret.value.redundancyScore = IF score < 100 THEN score ELSE 100

\* checkMoveRedundancy on two loaded members whose files list Other among
\* their four most used moves: "other" is a duplicate move of the two
C12_CatchAllShared ==
    /\ IsCall({"checkMoveRedundancy"})
    /\ ret.outcome = "ok"
    /\ \E e \in Range(ret.value.duplicateMoves) :
          e.key = "other" /\ e.val = <<"snorlax", "zapdos">>
    /\ ret.value.redundancyScore = 30

(***************************************************************************)
(* The queries on a loaded format (specification Spec).                    *)
(***************************************************************************)
\* the place of a profile in the cached map of the format of the last call
PlaceOf(profile) ==
    CHOOSE i \in 1..Len(MapGet(dataCache, ret.format)) :
        MapGet(dataCache, ret.format)[i].val = profile

\* C13: getTopPokemon(n, format) returns min(n, totalProfiles) profiles, the
\* most used ones, in descending order of rawCount, profiles of equal
\* rawCount in the order of the parse, and leaves the cached map in the order
\* of the parse.
C13_TopPokemon ==
    (IsCall({"getTopPokemon"}) /\ ret.outcome = "ok") =>
        LET data == MapGet(dataCache, ret.format)
            top == ret.value
            Before(v, w) ==            \* v is ranked before w
                \/ v.rawCount > w.rawCount
                \/ v.rawCount = w.rawCount /\ PlaceOf(v) < PlaceOf(w)
        IN  /\ Len(top) = Min(ret.arg, Len(data))
            /\ Range(top) \subseteq Range(MapValues(data))
            /\ \A i, j \in 1..Len(top) : i < j => Before(top[i], top[j])
            /\ \A w \in Range(MapValues(data)) \ Range(top) :
                  \A i \in 1..Len(top) : Before(top[i], w)
            /\ MapKeysSeq(data) =
                  MapKeysSeq(parseUsageFile(files[ret.format], DefaultOptions))
            /\ MapHas(pre, ret.format) => dataCache = pre

\* getTopPokemon(3) on a file that lists Zapdos, then Snorlax, then Cloyster,
\* Zapdos and Cloyster with the same rawCount
C13_TieInParseOrder ==
    /\ IsCall({"getTopPokemon"})
    /\ ret.outcome = "ok"
    /\ ret.arg = 3
    /\ Len(ret.value) = 3
    /\ ret.value[1].name = "Snorlax"
    /\ ret.value[2].name = "Zapdos"
    /\ ret.value[3].name = "Cloyster"
    /\ ret.value[2].rawCount = ret.value[3].rawCount
    /\ MapKeysSeq(MapGet(dataCache, ret.format)) = <<"zapdos", "snorlax", "cloyster">>

IsSortedDescending(s, field) ==
    \A i, j \in 1..Len(s) :
        i < j => IF field = "percentage" THEN s[i].percentage >= s[j].percentage
                 ELSE s[i].score >= s[j].score

\* C14 (as the specification states it): findPokemonWithMove(move, minPct,
\* format) returns one result for exactly the cached profiles whose moves map
\* holds the move, matched without regard to case, with a percentage >=
\* minPct, a move recorded at 0% with minPct 0 included, in descending order
\* of percentage; findCounters(name, minScore) returns exactly the counter
\* entries with score >= minScore in descending order of score.
C14_ExactlyTheMatches ==
    /\ (IsCall({"findPokemonWithMove"}) /\ ret.outcome = "ok") =>
          LET data == MapGet(dataCache, ret.format)
              move == ToLowerCase(ret.arg[1])
              holders == { i \in 1..Len(data) :
                             /\ MapHas(data[i].val.moves, move)
                             /\ MapGet(data[i].val.moves, move) >= ret.arg[2] }
          IN  /\ Len(ret.value) = Cardinality(holders)
              /\ Range(ret.value) =
                    { [pokemon |-> data[i].key,
                       percentage |-> MapGet(data[i].val.moves, move)] : i \in holders }
              /\ IsSortedDescending(ret.value, "percentage")
    /\ (IsCall({"findCounters"}) /\ ret.outcome = "ok") =>
          LET data == MapGet(dataCache, ret.format)
              threat == getPokemon(data, ret.arg[1])
              kept == IF threat = <<>> THEN <<>>
                      ELSE SelectSeq(threat[1].checksAndCounters,
                                     LAMBDA c : c.score >= ret.arg[2])
          IN  /\ Len(ret.value) = Len(kept)
              /\ Range(ret.value) =
                    { [pokemon |-> c.name, score |-> c.score] : c \in Range(kept) }
              /\ IsSortedDescending(ret.value, "score")

\* findPokemonWithMove("rest", 0) on a format whose Zapdos lists Rest at
\* 0.000%: Zapdos is not in the result
C14_ZeroPercentDropped ==
    /\ IsCall({"findPokemonWithMove"})
    /\ ret.outcome = "ok"
    /\ ret.arg = <<"rest", 0>>
    /\ MapHas(MapGet(dataCache, ret.format), "zapdos")
    /\ MapHas(MapGet(MapGet(dataCache, ret.format), "zapdos").moves, "rest")
    /\ MapGet(MapGet(MapGet(dataCache, ret.format), "zapdos").moves, "rest") = 0
    /\ \A r \in Range(ret.value) : r.pokemon # "zapdos"
    /\ Len(ret.value) = 2
    /\ ret.value[1] = [pokemon |-> "cloyster", percentage |-> 800]

(***************************************************************************)
(* The defensive score and the threat scores (specification SpecThreat).   *)
(***************************************************************************)
\* the distinct threats some member of the team lists
TeamThreats(t, usage) ==
    { x \in AllThreatNames(usage) : Threatened(t, usage, x) # {} }

\* C15: defensiveScore = max(0, 100 - (distinctThreatCount / teamSize) x 5
\* - blindSpotCount x 10), teamSize being the length of the team list; it
\* lies in [0, 100]; a team without a known member or without counter
\* entries, the empty team included, scores 100.
C15_DefensiveScore ==
    IsCall({"analyzeTeamWeaknesses"}) =>
        LET score == ret.value.defensiveScore
            n == Cardinality(TeamThreats(team, usageData))
            b == Len(ret.value.blindSpots)
        IN  /\ Len(team) >= 1 =>
                  REq(score, RMax(RInt(0), RSub(RSub(RInt(100), Rat(5 * n, Len(team))),
                                                RInt(10 * b))))
            /\ RLe(RInt(0), score) /\ RLe(score, RInt(100))
            /\ (Known(team, usageData) = <<>> \/ n = 0) => REq(score, RInt(100))

\* a team of two members that share nine threats and list ten:
\* 100 - 25 - 90 is raised to 0
C15_ClampedAtZero ==
    /\ IsCall({"analyzeTeamWeaknesses"})
    /\ team = <<"Zapdos", "cloyster">>
    /\ Cardinality(TeamThreats(team, usageData)) = 10
    /\ Len(ret.value.blindSpots) = 9
    /\ REq(ret.value.defensiveScore, RInt(0))

\* C16 (as the specification states it): every assessment of majorThreats
\* has 0 <= threatScore <= 100.
C16_ThreatScoreInRange ==
    IsCall({"analyzeTeamWeaknesses"}) =>
        \A a \in Range(ret.value.majorThreats) :
            RLe(RInt(0), a.threatScore) /\ RLe(a.threatScore, RInt(100))

\* a threat with a rawCount of 10000 that one member lists with a score of 9:
\* (9 x 10 + 1 x 20) x 1 = 110
C16_ThreatScoreAbove ==
    /\ IsCall({"analyzeTeamWeaknesses"})
    /\ team = <<"cloyster">>
    /\ ret.value.majorThreats # <<>>
    /\ ret.value.majorThreats[1].pokemon = "snorlax"
    /\ REq(ret.value.majorThreats[1].threatScore, RInt(110))

(***************************************************************************)
(* parser: the lines of a usage file.  content.split('\n') is a sequence   *)
(* of lines; a line is one of the rows the files are made of, given by its *)
(* kind, its text and its number, and the string tests and patterns of the *)
(* parser are what they yield on such a row:                               *)
(*   Border                 " +------------+ "                             *)
(*   Row(text)              " | text       | "                             *)
(*   RawCountLine(n)        " | Raw count: n | "                           *)
(*   AvgWeightLine(n)       " | Avg. weight: n | "                         *)
(*   ViabilityLine(n)       " | Viability Ceiling: n | "                   *)
(*   PctLine(label, p)      " | label p% | "   (p in tenths of a percent)  *)
(*   Blank                  ""                                             *)
(***************************************************************************)
Border == [kind |-> "border", text |-> "", num |-> 0]
Row(text) == [kind |-> "row", text |-> text, num |-> 0]
RawCountLine(n) == [kind |-> "rawCount", text |-> "", num |-> n]
AvgWeightLine(n) == [kind |-> "avgWeight", text |-> "", num |-> n]
ViabilityLine(n) == [kind |-> "viability", text |-> "", num |-> n]
PctLine(label, p) == [kind |-> "pct", text |-> label, num |-> p]
Blank == [kind |-> "blank", text |-> "", num |-> 0]

IncludesRawCount(line) == line.kind = "rawCount"        \* line.includes('Raw count:')

\* the loop of splitIntoEntries from line i on (lines are numbered from 1)
RECURSIVE SplitFrom(_, _, _, _)
SplitFrom(lines, i, entries, currentEntry) ==
    LET pushed == IF currentEntry # <<>> THEN Append(entries, currentEntry) ELSE entries
    IN  IF i > Len(lines) THEN pushed
        ELSE IF IncludesRawCount(lines[i])
        THEN SplitFrom(lines, i + 1, pushed, SubSeq(lines, Max(1, i - 3), i))
        ELSE IF currentEntry # <<>>
        THEN SplitFrom(lines, i + 1, entries, Append(currentEntry, lines[i]))
        ELSE SplitFrom(lines, i + 1, entries, currentEntry)

\* a variant of splitIntoEntries that starts an entry two lines before its marker
splitIntoEntriesFromTwoBefore(lines) ==
    LET marks == SelectSeqIdx([i \in 1..Len(lines) |-> IncludesRawCount(lines[i])],
                              1, Len(lines))
    IN  [k \in 1..Len(marks) |->
           SubSeq(lines, Max(1, marks[k] - 2),
                  IF k < Len(marks) THEN marks[k + 1] - 1 ELSE Len(lines))]

\* splitIntoEntries(content), an entry being the sequence of its lines
\* (currentEntry.join('\n'), split again by parsePokemonEntry)
splitIntoEntries(lines) == SplitFrom(lines, 1, <<>>, <<>>)

(***************************************************************************)
(* parser: parsePokemonEntry, parseMetadata and parseSection on the lines  *)
(* of an entry.  A counter row " | Name 75.1 (85.3+-2.5) | " is            *)
(* CounterLine(name, score).  Spreads are not modelled.                    *)
(***************************************************************************)
CounterLine(name, score) == [kind |-> "counter", text |-> name, num |-> score]

IncludesDivider(line) == line.kind = "border"           \* line.includes('+---')
StartsWithBar(line) == line.kind \notin {"border", "blank"}    \* line.startsWith(' |')

\* line.match(/\|\s+(.+?)\s+\|/): the text between the bars, or NoMatch.  A
\* row that holds a number besides its label yields a text that is no name
\* of a section.
NameMatch(line) ==
    CASE line.kind = "row" -> line.text
      [] line.kind = "rawCount" -> "Raw count:"
      [] line.kind = "avgWeight" -> "Avg. weight:"
      [] line.kind = "viability" -> "Viability Ceiling:"
      [] line.kind = "pct" -> "<label and percentage>"
      [] line.kind = "counter" -> "<name and score>"
      [] OTHER -> NoMatch

\* sectionName.includes('Raw count') || .includes('Avg') || .includes('Viability')
MetadataLike(sectionName) ==
    sectionName \in {"Raw count:", "Avg. weight:", "Viability Ceiling:"}

\* parseMetadata: each pattern that matches a line sets its field
RECURSIVE parseMetadata(_, _)
parseMetadata(lines, data) ==
    IF lines = <<>> THEN data
    ELSE parseMetadata(Tail(lines),
            CASE Head(lines).kind = "rawCount" -> [data EXCEPT !.rawCount = Head(lines).num]
              [] Head(lines).kind = "avgWeight" -> [data EXCEPT !.avgWeight = Head(lines).num]
              [] Head(lines).kind = "viability" ->
                    [data EXCEPT !.viabilityCeiling = Head(lines).num]
              [] OTHER -> data)

\* the rows of a section that /\|\s+(.+?)\s+([\d.]+)%/ matches, as label and
\* percentage, and those the counter pattern matches, as name and score
PercentageRows(lines) ==
    LET rows == SelectSeq(lines, LAMBDA l : l.kind = "pct")
    IN  [i \in 1..Len(rows) |-> KV(rows[i].text, rows[i].num)]

CounterRows(lines) ==
    LET rows == SelectSeq(lines, LAMBDA l : l.kind = "counter")
    IN  [i \in 1..Len(rows) |-> [name |-> rows[i].text, score |-> rows[i].num]]

\* a variant of parseSection that compares the header as it is written
parseSectionAsWritten(sectionName, lines, data, options) ==
    CASE sectionName = "abilities" ->
            [data EXCEPT !.abilities = parsePercentageMap(PercentageRows(lines), @, 0)]
      [] sectionName = "moves" ->
            [data EXCEPT !.moves = parsePercentageMap(PercentageRows(lines), @,
                                                      options.minMovePercentage)]
      [] OTHER -> data

parseSection(sectionName, lines, data, options) ==
    LET lowerSection == ToLowerCase(sectionName)
    IN  CASE lowerSection = "abilities" ->
                [data EXCEPT !.abilities = parsePercentageMap(PercentageRows(lines), @, 0)]
          [] lowerSection = "items" ->
                [data EXCEPT !.items = parsePercentageMap(PercentageRows(lines), @, 0)]
          [] lowerSection = "moves" ->
                [data EXCEPT !.moves = parsePercentageMap(PercentageRows(lines), @,
                                                          options.minMovePercentage)]
          [] lowerSection = "tera types" ->
                [data EXCEPT !.teraTypes = parsePercentageMap(PercentageRows(lines), @, 0)]
          [] lowerSection = "teammates" ->
                [data EXCEPT !.teammates = parsePercentageMap(PercentageRows(lines), @, 0)]
          [] lowerSection = "checks and counters" /\ options.includeChecksAndCounters ->
                [data EXCEPT !.checksAndCounters =
                    @ \o parseChecksAndCounters(CounterRows(lines))]
          [] OTHER -> data

\* if (currentSection && sectionContent.length > 0) parseSection(...)
ProcessSection(st, options) ==
    IF st.currentSection # "" /\ st.sectionContent # <<>>
    THEN parseSection(st.currentSection, st.sectionContent, st.data, options)
    ELSE st.data

\* the section loop of parsePokemonEntry from line i on (lines numbered from 1)
RECURSIVE ParseSections(_, _, _, _)
ParseSections(lines, i, st, options) ==
    IF i > Len(lines) THEN ProcessSection(st, options)
    ELSE IF IncludesDivider(lines[i])
    THEN LET reset == [st EXCEPT !.data = ProcessSection(st, options),
                                 !.inSectionContent = FALSE, !.sectionContent = <<>>]
         IN  IF i + 1 <= Len(lines) /\ NameMatch(lines[i + 1]) # NoMatch
             THEN ParseSections(lines, i + 2,
                                IF MetadataLike(NameMatch(lines[i + 1])) THEN reset
                                ELSE [reset EXCEPT !.currentSection = NameMatch(lines[i + 1]),
                                                   !.inSectionContent = TRUE],
                                options)
             ELSE ParseSections(lines, i + 1, reset, options)
    ELSE IF st.inSectionContent /\ StartsWithBar(lines[i])
    THEN ParseSections(lines, i + 1,
                       [st EXCEPT !.sectionContent = Append(@, lines[i])], options)
    ELSE ParseSections(lines, i + 1, st, options)

\* parsePokemonEntry on the lines of an entry: <<profile>>, or <<>> for null
ParsePokemonEntryLines(lines, options) ==
    IF Len(lines) < 2 \/ NameMatch(lines[2]) = NoMatch THEN <<>>
    ELSE LET data == parseMetadata(SubSeq(lines, 4, Min(8, Len(lines))),
                                   PokemonUsageData(NameMatch(lines[2]), 0, 0,
                                                    <<>>, <<>>, <<>>))
         IN  << ParseSections(lines, 2,
                              [data |-> data, currentSection |-> "",
                               sectionContent |-> <<>>, inSectionContent |-> FALSE],
                              options) >>

\* the loop of parseUsageFile over the entries
RECURSIVE StoreEntries(_, _, _)
StoreEntries(result, entries, options) ==
    IF entries = <<>> THEN result
    ELSE LET pokemon == ParsePokemonEntryLines(Head(entries), options)
         IN  StoreEntries(IF pokemon = <<>> THEN result
                          ELSE MapSet(result, ToLowerCase(pokemon[1].name), pokemon[1]),
                          Tail(entries), options)

\* a variant of the loop that gives up at the first entry without a profile
RECURSIVE StoreEntriesUntilNull(_, _, _)
StoreEntriesUntilNull(result, entries, options) ==
    IF entries = <<>> THEN result
    ELSE LET pokemon == ParsePokemonEntryLines(Head(entries), options)
         IN  IF pokemon = <<>> THEN result
             ELSE StoreEntriesUntilNull(MapSet(result, ToLowerCase(pokemon[1].name), pokemon[1]),
                                        Tail(entries), options)

\* a variant of parseUsageFile whose loop stops at an entry that cannot be parsed
ParseUsageLinesUntilNull(lines, options) ==
    StoreEntriesUntilNull(<<>>, splitIntoEntries(lines), options)

\* parseUsageFile on the lines of the file's content
ParseUsageLines(lines, options) == StoreEntries(<<>>, splitIntoEntries(lines), options)

(***************************************************************************)
(* splitIntoEntries on texts of up to MaxLines lines, each line a marker   *)
(* line or another line, told apart by its number.                         *)
(***************************************************************************)
NumberedLines(n, markers) ==
    [i \in 1..n |-> IF i \in markers THEN RawCountLine(i) ELSE PctLine("Rest", i)]

Texts == { NumberedLines(n, markers) : n \in 1..MaxLines, markers \in SUBSET (1..MaxLines) }

SplitIntoEntries ==
    /\ ret' = Call("splitIntoEntries", content, splitIntoEntries(content))
    /\ UNCHANGED <<files, dataCache, parses, pre, team, usageData, content, loads,
                   client, now, gets>>

InitSplit ==
    /\ files = [f \in Formats |-> NoFile]
    /\ dataCache = <<>>
    /\ parses = [f \in Formats |-> 0]
    /\ pre = <<>>
    /\ ret = NoCall
    /\ team = <<>>
    /\ usageData = <<>>
    /\ content \in Texts
    /\ loads = <<>>
    /\ ClientUnused

NextSplit == SplitIntoEntries

SpecSplit == InitSplit /\ [][NextSplit]_vars

\* the numbers of the marker lines of the text, ascending
MarkerLines ==
    SelectSeqIdx([i \in 1..Len(content) |-> IncludesRawCount(content[i])], 1, Len(content))

\* the line before which the entry of the k-th marker ends
EntryEnd(k) == IF k < Len(MarkerLines) THEN MarkerLines[k + 1] - 1 ELSE Len(content)

\* C17 (as the specification states it): one entry per marker line, in file
\* order, each made of the three lines before its marker line, the marker
\* line and the lines up to the next marker line or the end of the text.
C17_ThreeLinesBefore ==
    IsCall({"splitIntoEntries"}) =>
        /\ Len(ret.value) = Len(MarkerLines)
        /\ \A k \in 1..Len(MarkerLines) :
              /\ MarkerLines[k] - 3 >= 1
              /\ ret.value[k] = SubSeq(content, MarkerLines[k] - 3, EntryEnd(k))

\* C17, amended: one entry per marker line, in file order (none without a
\* marker), each made of the lines before its marker line, at most three and
\* as many as the text has there, the marker line and the lines up to the
\* next marker line or the end of the text.
C17_UpToThreeLinesBefore ==
    IsCall({"splitIntoEntries"}) =>
        /\ Len(ret.value) = Len(MarkerLines)
        /\ \A k \in 1..Len(MarkerLines) :
              ret.value[k] = SubSeq(content, Max(1, MarkerLines[k] - 3), EntryEnd(k))

\* a marker on the second line and a marker on the sixth: the first entry
\* starts with the first line, the second with the third
C17_MarkerOnSecondLine ==
    /\ IsCall({"splitIntoEntries"})
    /\ MarkerLines = <<2, 6>>
    /\ Len(content) = 7
    /\ Len(ret.value) = 2
    /\ ret.value[1] = SubSeq(content, 1, 5)
    /\ ret.value[2] = SubSeq(content, 3, 7)

(***************************************************************************)
(* parseUsageFile on texts made of blocks: the box of a name, the metadata *)
(* rows, and sections of a divider, a header row and content rows.         *)
(***************************************************************************)
NameRow(name) == IF name = NoMatch THEN Blank ELSE Row(name)

Header(name, rawCount, withWeights) ==
    << Border, NameRow(name), Border, RawCountLine(rawCount) >>
    \o (IF withWeights THEN << AvgWeightLine(1), ViabilityLine(88) >> ELSE <<>>)

Section(header) ==
    << Border, Row(header) >>
    \o CASE header = "Abilities" -> << PctLine("Immunity", 1000) >>
         [] header = "Moves" -> << PctLine("Body Slam", 1000) >>
         [] header = "MOVES" -> << PctLine("Thunderbolt", 990) >>
         [] header = "Items" -> << PctLine("Leftovers", 950) >>
         [] header = "Teammates" -> << PctLine("Zapdos", 726), PctLine("Raikou", 300) >>
         [] header = "Checks and Counters" -> << CounterLine("Skarmory", 75) >>

RECURSIVE Sections(_)
Sections(order) ==
    IF order = <<>> THEN <<>> ELSE Section(Head(order)) \o Sections(Tail(order))

\* the sequences without repetition of all the elements of a set
Orders(S) ==
    { o \in [1..Cardinality(S) -> S] : \A i, j \in 1..Cardinality(S) : o[i] = o[j] => i = j }

\* a single-entry text block built with a known rawCount, one ability at
\* 100% and one move at 100%, its sections in any order, other sections
\* among them, with or without the other metadata rows and the closing border
BuiltText(rawCount, withWeights, order, closed) ==
    Header("Snorlax", rawCount, withWeights) \o Sections(order)
    \o (IF closed THEN << Border >> ELSE <<>>)

BuiltTexts ==
    { BuiltText(n, w, o, c) :
        n \in {1, 12345}, w \in BOOLEAN, c \in BOOLEAN,
        o \in UNION { Orders({"Abilities", "Moves"} \cup more) :
                        more \in SUBSET {"Items", "Teammates"} } }

\* the blocks of a file: snorlax with every metadata row, zapdos with the
\* Raw count row only and a header in capitals, and a block whose name row
\* is missing
BlockKinds == {"snorlax", "zapdos", "bad"}

Block(kind) ==
    CASE kind = "snorlax" ->
            Header("Snorlax", 10000, TRUE) \o Sections(<<"Abilities", "Moves">>)
      [] kind = "zapdos" ->
            Header("Zapdos", 5000, FALSE) \o Sections(<<"MOVES", "Checks and Counters">>)
      [] kind = "bad" ->
            Header(NoMatch, 7, TRUE) \o Sections(<<"Moves">>)

RECURSIVE Blocks(_)
Blocks(kinds) == IF kinds = <<>> THEN <<>> ELSE Block(Head(kinds)) \o Blocks(Tail(kinds))

BlockSeqs == SeqsUpTo(BlockKinds, MaxBlocks) \ {<<>>}

FileText(kinds) == Blocks(kinds) \o << Border >>

FileTexts == { FileText(kinds) : kinds \in BlockSeqs }

ParseOptions ==
    { DefaultOptions, [DefaultOptions EXCEPT !.minMovePercentage = 500] }

\* parseUsageFile(filePath, options) on the content of the file; pre keeps
\* the call before
ParseUsageFile(options) ==
    /\ ret' = Call("parseUsageFile", options, ParseUsageLines(content, options))
    /\ pre' = ret
    /\ UNCHANGED <<files, dataCache, parses, team, usageData, content, loads, client, now, gets>>

InitParse ==
    /\ files = [f \in Formats |-> NoFile]
    /\ dataCache = <<>>
    /\ parses = [f \in Formats |-> 0]
    /\ pre = NoCall
    /\ ret = NoCall
    /\ team = <<>>
    /\ usageData = <<>>
    /\ content \in BuiltTexts \cup FileTexts
    /\ loads = <<>>
    /\ ClientUnused

NextParse == \E options \in ParseOptions : ParseUsageFile(options)

SpecParse == InitParse /\ [][NextParse]_vars

\* what a block of a file holds
BlockName(kind) == IF kind = "snorlax" THEN "Snorlax" ELSE "Zapdos"

BlockProfile(kind) ==
    IF kind = "snorlax"
    THEN [name |-> "Snorlax", rawCount |-> 10000, avgWeight |-> 1, viabilityCeiling |-> 88,
          abilities |-> << KV("immunity", 1000) >>, items |-> <<>>,
          moves |-> << KV("body slam", 1000) >>, teraTypes |-> <<>>,
          teammates |-> <<>>, checksAndCounters |-> <<>>]
    ELSE [name |-> "Zapdos", rawCount |-> 5000, avgWeight |-> 0, viabilityCeiling |-> 0,
          abilities |-> <<>>, items |-> <<>>,
          moves |-> << KV("thunderbolt", 990) >>, teraTypes |-> <<>>,
          teammates |-> <<>>,
          checksAndCounters |-> << [name |-> "skarmory", score |-> 75] >>]

\* C18: an entry whose name row does not match is left out, every other
\* entry of the file is parsed and stored under its lowercase name, the call
\* returns, and the metadata fields an entry does not give are 0.
C18_FailureContainment ==
    IsCall({"parseUsageFile"}) =>
        \A kinds \in BlockSeqs :
            content = FileText(kinds) =>
                /\ ret.outcome = "ok"
                /\ MapKeys(ret.value) =
                      { ToLowerCase(BlockName(k)) : k \in Range(kinds) \ {"bad"} }
                /\ Len(ret.value) = Cardinality(MapKeys(ret.value))
                /\ \A k \in Range(kinds) \ {"bad"} :
                      MapGet(ret.value, ToLowerCase(BlockName(k))) = BlockProfile(k)

\* a file of a zapdos block without weights, a block without a name row and
\* a snorlax block: two profiles, the metadata zapdos does not give are 0
C18_BadBlockBetween ==
    /\ IsCall({"parseUsageFile"})
    /\ content = FileText(<<"zapdos", "bad", "snorlax">>)
    /\ MapKeysSeq(ret.value) = <<"zapdos", "snorlax">>
    /\ MapGet(ret.value, "zapdos").avgWeight = 0
    /\ MapGet(ret.value, "zapdos").viabilityCeiling = 0
    /\ MapGet(ret.value, "snorlax").viabilityCeiling = 88

Callers == {1, 2}

Idle == [pc |-> "idle", format |-> NoArg, options |-> DefaultOptions,
         usageData |-> <<>>, stored |-> FALSE, overwrote |-> FALSE]

\* the entries of a map set one by one into another map
RECURSIVE StoreEntriesOf(_, _)
StoreEntriesOf(target, entries) ==
    IF entries = <<>> THEN target
    ELSE StoreEntriesOf(MapSet(target, Head(entries).key, Head(entries).val), Tail(entries))

\* a variant of the store that merges the parsed map into the cached one
StoreMerged(cache, format, parsed) ==
    IF MapHas(cache, format)
    THEN MapSet(cache, format, StoreEntriesOf(MapGet(cache, format), parsed))
    ELSE MapSet(cache, format, parsed)

\* this.dataCache.set(format, usageData)
StoreMap(cache, format, parsed) == MapSet(cache, format, parsed)

\* if (this.dataCache.has(format)) return;
CheckCached(c, format, options) ==
    /\ loads[c].pc = "idle"
    /\ loads' = [loads EXCEPT ![c] =
                    [Idle EXCEPT !.pc = IF MapHas(dataCache, format) THEN "done" ELSE "checked",
                                 !.format = format, !.options = options]]
    /\ UNCHANGED <<files, dataCache, parses, pre, ret, team, usageData, content, client, now, gets>>

\* const usageData = parseUsageFile(filePath, options); readFileSync raises
\* when the file is missing
ParseFile(c) ==
    /\ loads[c].pc = "checked"
    /\ loads' = [loads EXCEPT ![c] =
                    IF files[loads[c].format].exists
                    THEN [loads[c] EXCEPT
                            !.pc = "parsed",
                            !.usageData = parseUsageFile(files[loads[c].format],
                                                         loads[c].options)]
                    ELSE [loads[c] EXCEPT !.pc = "done"]]
    /\ UNCHANGED <<files, dataCache, parses, pre, ret, team, usageData, content, client, now, gets>>

StoreParsed(c) ==
    /\ loads[c].pc = "parsed"
    /\ dataCache' = StoreMap(dataCache, loads[c].format, loads[c].usageData)
    /\ loads' = [loads EXCEPT ![c] =
                    [loads[c] EXCEPT !.pc = "done", !.stored = TRUE,
                                     !.overwrote = MapHas(dataCache, loads[c].format)]]
    /\ UNCHANGED <<files, parses, pre, ret, team, usageData, content, client, now, gets>>

\* the file of a format is replaced on disk
ReplaceFile(format) ==
    /\ files[format].exists
    /\ files' = [files EXCEPT ![format] = IF @ = FileA THEN FileB ELSE FileA]
    /\ UNCHANGED <<dataCache, parses, pre, ret, team, usageData, content, loads, client, now, gets>>

InitRace ==
    /\ files \in [Formats -> {NoFile, FileA, FileB}]
    /\ dataCache \in {<<>>, << KV("", parseUsageFile(FileB, DefaultOptions)) >>}
    /\ parses = [f \in Formats |-> 0]
    /\ pre = dataCache
    /\ ret = NoCall
    /\ team = <<>>
    /\ usageData = <<>>
    /\ content = <<>>
    /\ loads = [c \in Callers |-> Idle]
    /\ ClientUnused

NextRace ==
    \/ \E c \in Callers, f \in Formats, o \in OptionChoices : CheckCached(c, f, o)
    \/ \E c \in Callers : ParseFile(c)
    \/ \E c \in Callers : StoreParsed(c)
    \/ \E f \in Formats : ReplaceFile(f)

SpecRace == InitRace /\ [][NextRace]_vars

\* C20: whatever the interleaving of two first loads, a format the calls
\* loaded holds exactly the complete map one of the calls parsed, the one
\* stored last, and a format cached before keeps its map.
C20_OneCompleteMap ==
    /\ \A f \in MapKeys(pre) : MapHas(dataCache, f) /\ MapGet(dataCache, f) = MapGet(pre, f)
    /\ \A f \in MapKeys(dataCache) \ MapKeys(pre) :
          \E c \in Callers :
              /\ loads[c].stored
              /\ loads[c].format = f
              /\ MapGet(dataCache, f) = loads[c].usageData

\* both calls found the format not cached, parsed files of different
\* profiles and stored: the second store replaced the map of the first
C20_BothStored ==
    /\ loads[1].stored /\ loads[2].stored
    /\ loads[1].format = "gen2ou-1760" /\ loads[2].format = "gen2ou-1760"
    /\ loads[2].overwrote
    /\ MapKeys(loads[1].usageData) # MapKeys(loads[2].usageData)
    /\ loads[1].options # loads[2].options
    /\ MapGet(dataCache, "gen2ou-1760") = loads[2].usageData
    /\ MapHas(pre, "") /\ MapGet(dataCache, "") = MapGet(pre, "")


(***************************************************************************)
(* The queries and analyses as readers of the cache.                       *)
(***************************************************************************)
\* C21: a query or an analysis leaves every format that was cached before
\* the call with the same name -> profile map at the same place of the
\* cache; the cache differs from what it was by at most one entry, appended
\* last, for the requested format, and only when that format was not cached.
C21_QueriesFrameCache ==
    IsCall(QueryOps \cup AnalysisOps) =>
        /\ Len(pre) <= Len(dataCache)
        /\ Len(dataCache) <= Len(pre) + 1
        /\ \A i \in 1..Len(pre) : dataCache[i] = pre[i]
        /\ Len(dataCache) = Len(pre) + 1 =>
              /\ dataCache[Len(dataCache)].key = ret.format
              /\ ~MapHas(pre, ret.format)
              /\ ret.stored

\* an analysis lazily loads its format next to a format that was loaded
\* with other options than the default ones, and one whose format is cached
\* with such options is answered from it.
C21_LazyLoadBesideCached ==
    /\ IsCall(AnalysisOps)
    /\ Len(pre) = 1
    /\ Len(dataCache) = 2
    /\ files[pre[1].key].exists
    /\ pre[1].val # parseUsageFile(files[pre[1].key], DefaultOptions)
    /\ dataCache[1] = pre[1]


\* C29: the options of a load count only when the load parses.  The lazy
\* load of a query or an analysis stores the file parsed with the default
\* options; a loadFormat call that parses stores the file parsed with its
\* own options; a loadFormat call on a cached format, whatever its options,
\* leaves the cached map as it was, so the map changes only after
\* clearCache has evicted the format.
C29_OptionsOnlyWhenParsing ==
    /\ (IsCall(QueryOps \cup AnalysisOps) /\ ret.stored) =>
          MapGet(dataCache, ret.format) = parseUsageFile(files[ret.format], DefaultOptions)
    /\ (IsCall({"loadFormat"}) /\ ret.stored) =>
          /\ ~MapHas(pre, ret.format)
          /\ MapGet(dataCache, ret.format) = parseUsageFile(files[ret.format], ret.arg)
    /\ (IsCall({"loadFormat"} \cup QueryOps \cup AnalysisOps) /\ MapHas(pre, ret.format)) =>
          /\ ~ret.stored
          /\ MapGet(dataCache, ret.format) = MapGet(pre, ret.format)
    /\ \A f \in Formats :
          (MapHas(pre, f) /\ MapHas(dataCache, f)) =>
              MapGet(dataCache, f) = MapGet(pre, f)

\* a query is answered from a format that was loaded with a minimum move
\* percentage, which the default options would have parsed differently.
C29_QueryOnFilteredFormat ==
    /\ IsCall(QueryOps)
    /\ ~ret.stored
    /\ MapHas(dataCache, ret.format)
    /\ MapGet(dataCache, ret.format) =
          parseUsageFile(files[ret.format], [DefaultOptions EXCEPT !.minMovePercentage = 750])
    /\ MapGet(dataCache, ret.format) # parseUsageFile(files[ret.format], DefaultOptions)


(***************************************************************************)
(* The major threats (specification SpecMajor): analyzeTeamWeaknesses on   *)
(* the wide map and on the maps of the blind-spot runs.                    *)
(***************************************************************************)
InitMajor ==
    /\ files = [f \in Formats |-> NoFile]
    /\ dataCache = <<>>
    /\ parses = [f \in Formats |-> 0]
    /\ pre = <<>>
    /\ ret = NoCall
    /\ \/ team \in WideTeams /\ usageData = WideMap
       \/ team \in SeqsUpTo(ThreatNames, MaxThreatHead) /\ usageData \in ThreatMaps
    /\ content = <<>>
    /\ loads = <<>>
    /\ ClientUnused

NextMajor == AnalyzeTeamWeaknesses

SpecMajor == InitMajor /\ [][NextMajor]_vars

\* (mean counter score x 10 + distinct members threatened x 20) x
\* usageFactor, from the team and the usage map
ClaimedThreatScore(t, usage, x) ==
    LET s == ThreatScores(t, usage, x)
        members == Cardinality(Threatened(t, usage, x))
        rawCount == MapGet(usage, x).rawCount
        usageFactor == IF ~MapHas(usage, x) THEN Rat(1, 2)
                       ELSE IF rawCount >= 5000 THEN RInt(1) ELSE Rat(rawCount, 5000)
    IN  RMul(Rat(10 * s.total + 20 * members * s.count, s.count), usageFactor)

\* C26: every major threat is a threat of the team with the score (mean
\* counter score x 10 + distinct members threatened x 20) x usageFactor,
\* usageFactor being min(1, rawCount / 5000) of the threat's own profile and
\* 0.5 without one; majorThreats lists each threat at most once, in
\* descending order of this score, and holds the 10 highest-scoring threats,
\* all of them when there are at most 10.
C26_MajorThreats ==
    IsCall({"analyzeTeamWeaknesses"}) =>
        LET major == ret.value.majorThreats
            threats == TeamThreats(team, usageData)
            listed == { a.pokemon : a \in Range(major) }
        IN  /\ listed \subseteq threats
            /\ \A i, j \in 1..Len(major) : major[i].pokemon = major[j].pokemon => i = j
            /\ \A a \in Range(major) :
                  REq(a.threatScore, ClaimedThreatScore(team, usageData, a.pokemon))
            /\ \A i \in 1..(Len(major) - 1) :
                  RLe(major[i + 1].threatScore, major[i].threatScore)
            /\ Len(major) = Min(10, Cardinality(threats))
            /\ \A x \in threats \ listed : \A a \in Range(major) :
                  RLe(ClaimedThreatScore(team, usageData, x), a.threatScore)

\* thirteen threats, three of them left out; the first has a profile used
\* more than 5000 times, the third has none, and one has a factor of 0.5
\* from a profile used 2500 times
C26_ThirteenThreats ==
    /\ IsCall({"analyzeTeamWeaknesses"})
    /\ team = <<"cloyster", "Snorlax">>
    /\ Cardinality(TeamThreats(team, usageData)) = 13
    /\ Len(ret.value.majorThreats) = 10
    /\ ret.value.majorThreats[1].pokemon = "snorlax"
    /\ REq(ret.value.majorThreats[1].threatScore, RInt(110))
    /\ ret.value.majorThreats[3].pokemon = "alakazam"
    /\ REq(ret.value.majorThreats[3].threatScore, RInt(50))
    /\ ret.value.majorThreats[6].pokemon = "cloyster"
    /\ REq(ret.value.majorThreats[6].threatScore, RInt(25))


\* the checks-and-counters list of a threat, empty without a profile, and
\* the score of the first entry of a list that names the member
CountersOf(usage, threat) ==
    IF MapHas(usage, threat) THEN MapGet(usage, threat).checksAndCounters ELSE <<>>

RecordedScore(list, member) ==
    list[CHOOSE c \in 1..Len(list) :
            /\ ToLowerCase(list[c].name) = member
            /\ \A b \in 1..(c - 1) : ToLowerCase(list[b].name) # member].score

\* C27 (as the specification states it): for each major threat,
\* threatenedBy names exactly the team members that appear in the threat's
\* own checks-and-counters list (none when the threat has no profile), each
\* with the score recorded there, in descending order of score.
C27_ThreatenedBy ==
    IsCall({"analyzeTeamWeaknesses"}) =>
        \A a \in Range(ret.value.majorThreats) :
            LET list == CountersOf(usageData, a.pokemon)
                checkers == a.threatenedBy
            IN  /\ { e.name : e \in Range(checkers) } =
                      { m \in Range(NormalizeTeam(team)) :
                          \E c \in Range(list) : ToLowerCase(c.name) = m }
                /\ \A e \in Range(checkers) : e.score = RecordedScore(list, e.name)
                /\ \A i \in 1..(Len(checkers) - 1) :
                      checkers[i].score >= checkers[i + 1].score

\* snorlax, a threat of cloyster, lists raikou and cloyster among its own
\* counters; raikou is on the team and has no profile, and threatenedBy
\* holds cloyster alone
C27_UnknownMemberLeftOut ==
    /\ IsCall({"analyzeTeamWeaknesses"})
    /\ team = <<"cloyster", "raikou">>
    /\ ~MapHas(usageData, "raikou")
    /\ \E c \in Range(CountersOf(usageData, "snorlax")) : ToLowerCase(c.name) = "raikou"
    /\ \E a \in Range(ret.value.majorThreats) :
          /\ a.pokemon = "snorlax"
          /\ a.threatenedBy = << [name |-> "cloyster", score |-> 3] >>

\* whenever every member of the team has a profile, threatenedBy is as the
\* specification states it
C27_ThreatenedByKnownTeam ==
    (\A m \in Range(NormalizeTeam(team)) : MapHas(usageData, m)) => C27_ThreatenedBy

\* two members in the list of a threat, the later member of the team with
\* the higher score
C27_TwoCheckersSorted ==
    /\ IsCall({"analyzeTeamWeaknesses"})
    /\ team = <<"cloyster", "Zapdos">>
    /\ \E a \in Range(ret.value.majorThreats) :
          /\ a.pokemon = "snorlax"
          /\ a.threatenedBy = << [name |-> "zapdos", score |-> 6],
                                 [name |-> "cloyster", score |-> 3] >>


(***************************************************************************)
(* The three ways to the blind spots (specification SpecBlind): the teams  *)
(* of the report runs on the maps of the blind-spot runs and on a report   *)
(* map on which the report of a team with zapdos raises.                   *)
(***************************************************************************)
BlindMaps == ThreatMaps \cup { ReportMap("Hidden Power [constructor]", 700, 100) }

InitBlind ==
    /\ files = [f \in Formats |-> NoFile]
    /\ dataCache = <<>>
    /\ parses = [f \in Formats |-> 0]
    /\ pre = <<>>
    /\ ret = NoCall
    /\ team \in SeqsUpTo(ReportNames, MaxTeam)
    /\ usageData \in BlindMaps
    /\ content = <<>>
    /\ loads = <<>>
    /\ ClientUnused

NextBlind ==
    \/ FindBlindSpots
    \/ AnalyzeTeamWeaknesses
    \/ GenerateTeamReport

SpecBlind == InitBlind /\ [][NextBlind]_vars

\* C28: findBlindSpots(team) returns the list, in the same order, that
\* analyzeTeamWeaknesses(team) returns as blindSpots, and that a
\* generateTeamReport(team) that returns has as weaknesses.blindSpots.
C28_SameBlindSpots ==
    /\ IsCall({"findBlindSpots"}) =>
          ret.value = analyzeTeamWeaknesses(team, usageData).blindSpots
    /\ IsCall({"analyzeTeamWeaknesses"}) =>
          ret.value.blindSpots = findBlindSpots(team, usageData)
    /\ (IsCall({"generateTeamReport"}) /\ ret.outcome = "ok") =>
          ret.value.weaknesses.blindSpots = findBlindSpots(team, usageData)

\* a report on a team that names snorlax twice: two blind spots, skarmory
\* with the scores 2, 2 and 3 and raikou with three scores as well
C28_ReportOnRepeatedMember ==
    /\ IsCall({"generateTeamReport"})
    /\ ret.outcome = "ok"
    /\ team = <<"Snorlax", "Snorlax", "Zapdos">>
    /\ usageData = ThreatMap(TRUE, 5)
    /\ Len(ret.value.weaknesses.blindSpots) = 2
    /\ \E b \in Range(ret.value.weaknesses.blindSpots) :
          b.pokemon = "skarmory" /\ REq(b.avgScore, Rat(7, 3))


(***************************************************************************)
(* client: PokeAPIClient (src/src/client.ts).  The cache is a Map from the *)
(* request URL to an entry [data, timestamp]; time is counted in ticks of  *)
(* Date.now().  A get call is at "idle" (not under way), at "fetch"        *)
(* (awaiting fetch, the abort timer set) or at "json" (awaiting            *)
(* response.json(), the timer cleared).  The server answers with a status  *)
(* and then a body, fails, or stays silent.                                *)
(***************************************************************************)
MaxClock == 3          \* the last tick of Date.now()
MaxSize == 2           \* the largest cacheOptions.maxSize

Urls == {"/pokemon/1", "/pokemon/2"}

RequestTimeout == 1    \* this.timeout, in ticks
CacheTtl == 1          \* cacheOptions.ttl, in ticks

CacheOptionChoices == [enabled : BOOLEAN, ttl : {CacheTtl}, maxSize : 0..MaxSize]

\* the bodies a server sends, and response.json() on them: <<value>>, or
\* <<>> when the text is not JSON
Bodies == {"{\"id\": 1}", "null", "<html>"}

JsonParse(body) ==
    CASE body = "{\"id\": 1}" -> << "[object Object]" >>
      [] body = "null" -> << Null >>
      [] OTHER -> <<>>

Statuses == {200, 404, 429, 500}

\* getFromCache(key) at time t: the cache it leaves and what it returns;
\* get takes anything but null for a hit (cached !== null)
getFromCache(cache, options, t, key) ==
    IF ~options.enabled THEN [cache |-> cache, hit |-> FALSE, data |-> Null]
    ELSE IF ~MapHas(cache, key) THEN [cache |-> cache, hit |-> FALSE, data |-> Null]
    ELSE IF t - MapGet(cache, key).timestamp > options.ttl
    THEN [cache |-> MapDelete(cache, key), hit |-> FALSE, data |-> Null]
    ELSE [cache |-> cache, hit |-> MapGet(cache, key).data # Null,
          data |-> MapGet(cache, key).data]

\* setCache(key, data) at time t: cache.keys().next().value is the first
\* key in insertion order, undefined for an empty cache
setCache(cache, options, t, key, data) ==
    IF ~options.enabled THEN cache
    ELSE MapSet(IF Len(cache) >= options.maxSize /\ cache # <<>>
                THEN MapDelete(cache, cache[1].key) ELSE cache,
                key, [data |-> data, timestamp |-> t])

clearHttpCache(cache) == <<>>                    \* this.cache.clear()

getCacheStats(c) ==
    [size |-> Len(c.cache), maxSize |-> c.cacheOptions.maxSize,
     enabled |-> c.cacheOptions.enabled]

\* the error a response without response.ok is turned into
StatusError(status) ==
    CASE status = 404 -> "NotFoundError"
      [] status = 429 -> "RateLimitError"
      [] OTHER -> "NetworkError"

GetIdle == [pc |-> "idle", url |-> "", started |-> 0, removed |-> FALSE]

\* what a step of a get call leaves in ret: the step ("call", "headers",
\* "body", or what went wrong: "status", "network", "timeout", "not json",
\* "body lost"), and its outcome: the call settles with "resolved" or with
\* the name of an error, or goes on ("pending"); the status is the one of
\* the response, 0 before there is one
GetEvent(c, call, step, outcome, value, status, requested) ==
    [op |-> "get", caller |-> c, url |-> call.url, step |-> step,
     outcome |-> outcome, value |-> value, status |-> status,
     requested |-> requested, removed |-> call.removed,
     started |-> call.started, at |-> now]

Settle(c, step, outcome, value, status) ==
    /\ gets' = [gets EXCEPT ![c] = GetIdle]
    /\ ret' = GetEvent(c, gets[c], step, outcome, value, status, TRUE)

ClientFrame == UNCHANGED <<files, dataCache, parses, team, usageData, content, loads>>

\* get(endpoint) up to its first await: the cache is asked, and on a miss
\* the timer is set and the request issued
GetCalled(c, url) ==
    /\ gets[c].pc = "idle"
    /\ \E r \in {getFromCache(client.cache, client.cacheOptions, now, url)} :
          /\ ~r.hit => now + RequestTimeout <= MaxClock
          /\ client' = [client EXCEPT !.cache = r.cache]
          /\ \E call \in {[pc |-> "fetch", url |-> url, started |-> now,
                           removed |-> r.cache # client.cache]} :
                IF r.hit
                THEN /\ gets' = gets
                     /\ ret' = GetEvent(c, call, "call", "resolved", r.data, 0, FALSE)
                ELSE /\ gets' = [gets EXCEPT ![c] = call]
                     /\ ret' = GetEvent(c, call, "call", "pending", Null, 0, TRUE)
    /\ pre' = client.cache
    /\ UNCHANGED now
    /\ ClientFrame

\* fetch resolves with the status line and the headers: clearTimeout, then
\* the status is looked at
Responds(c, status) ==
    /\ gets[c].pc = "fetch"
    /\ IF status \in 200..299
       THEN /\ gets' = [gets EXCEPT ![c] = [gets[c] EXCEPT !.pc = "json"]]
            /\ ret' = GetEvent(c, gets[c], "headers", "pending", Null, status, TRUE)
       ELSE Settle(c, "status", StatusError(status), Null, status)
    /\ pre' = client.cache
    /\ UNCHANGED <<client, now>>
    /\ ClientFrame

\* fetch rejects: the connection could not be made or was lost
FetchFails(c) ==
    /\ gets[c].pc = "fetch"
    /\ Settle(c, "network", "NetworkError", Null, 0)
    /\ pre' = client.cache
    /\ UNCHANGED <<client, now>>
    /\ ClientFrame

\* the timer set before fetch fires: controller.abort(), fetch rejects with
\* an AbortError
TimerFires(c) ==
    /\ gets[c].pc = "fetch"
    /\ now >= gets[c].started + RequestTimeout
    /\ Settle(c, "timeout", "NetworkError", Null, 0)
    /\ pre' = client.cache
    /\ UNCHANGED <<client, now>>
    /\ ClientFrame

\* response.json() settles on a complete body
BodyArrives(c, body) ==
    /\ gets[c].pc = "json"
    /\ IF JsonParse(body) = <<>>
       THEN /\ Settle(c, "not json", "ParseError", Null, 200)
            /\ UNCHANGED client
       ELSE /\ Settle(c, "body", "resolved", JsonParse(body)[1], 200)
            /\ client' = [client EXCEPT !.cache =
                            setCache(client.cache, client.cacheOptions, now,
                                     gets[c].url, JsonParse(body)[1])]
    /\ pre' = client.cache
    /\ UNCHANGED now
    /\ ClientFrame

\* response.json() rejects because the connection is lost while the body
\* is read
BodyFails(c) ==
    /\ gets[c].pc = "json"
    /\ Settle(c, "body lost", "ParseError", Null, 200)
    /\ pre' = client.cache
    /\ UNCHANGED <<client, now>>
    /\ ClientFrame

ClearHttpCache ==
    /\ client' = [client EXCEPT !.cache = clearHttpCache(client.cache)]
    /\ ret' = [op |-> "clearCache", caller |-> 0, url |-> "", step |-> "call",
               outcome |-> "resolved", value |-> Null, status |-> 0,
               requested |-> FALSE, removed |-> FALSE, started |-> now, at |-> now]
    /\ pre' = client.cache
    /\ UNCHANGED <<now, gets>>
    /\ ClientFrame

Tick ==
    /\ now < MaxClock
    /\ now' = now + 1
    /\ UNCHANGED <<client, gets, pre, ret>>
    /\ ClientFrame

InitClient ==
    /\ files = [f \in Formats |-> NoFile]
    /\ dataCache = <<>>
    /\ parses = [f \in Formats |-> 0]
    /\ pre = <<>>
    /\ ret = NoCall
    /\ team = <<>>
    /\ usageData = <<>>
    /\ content = <<>>
    /\ loads = <<>>
    /\ client \in { [cache |-> <<>>, cacheOptions |-> o] : o \in CacheOptionChoices }
    /\ now = 0
    /\ gets = [c \in Callers |-> GetIdle]

NextClient ==
    \/ \E c \in Callers, url \in Urls : GetCalled(c, url)
    \/ \E c \in Callers, status \in Statuses : Responds(c, status)
    \/ \E c \in Callers : FetchFails(c)
    \/ \E c \in Callers : TimerFires(c)
    \/ \E c \in Callers, body \in Bodies : BodyArrives(c, body)
    \/ \E c \in Callers : BodyFails(c)
    \/ ClearHttpCache
    \/ Tick

SpecClient == InitClient /\ [][NextClient]_vars


(***************************************************************************)
(* The HTTP cache (specification SpecClient).                              *)
(***************************************************************************)
IsGet(outcomes) == ret.op = "get" /\ ret.outcome \in outcomes

ErrorNames == {"NotFoundError", "RateLimitError", "NetworkError", "ParseError"}

\* C22 (as the specification states it): whatever maxSize is configured,
\* the cache never holds more than maxSize entries after any sequence of
\* get and clearCache calls; with caching disabled it stays empty; after
\* clearCache its size is 0.
C22_SizeBounded ==
    /\ getCacheStats(client).size <= getCacheStats(client).maxSize
    /\ ~client.cacheOptions.enabled => client.cache = <<>>
    /\ ret.op = "clearCache" => getCacheStats(client).size = 0

\* a client configured with maxSize 0 holds the response of a get
C22_ZeroSizeHoldsOne ==
    /\ client.cacheOptions.enabled
    /\ client.cacheOptions.maxSize = 0
    /\ IsGet({"resolved"})
    /\ ret.requested
    /\ MapKeysSeq(client.cache) = << ret.url >>

\* for every maxSize of at least 1 the three statements hold
C22_BoundedFromOne ==
    client.cacheOptions.maxSize >= 1 => C22_SizeBounded


\* the age, at the last step, of the entry the cache held for the URL
AgeOf(url) == ret.at - MapGet(pre, url).timestamp

\* C23 (as the specification states it), for a client with caching enabled:
\* a get that ends with a response stores it under its URL; a get for a URL
\* whose entry is at most ttl old returns the stored response, issues no
\* request and leaves the cache as it was; a get for a URL whose entry is
\* older than ttl discards the entry and issues a request.
C23_StoredThenServed ==
    (ret.op = "get" /\ client.cacheOptions.enabled) =>
        /\ (ret.step = "body" /\ ret.outcome = "resolved") =>
              /\ MapHas(client.cache, ret.url)
              /\ MapGet(client.cache, ret.url) = [data |-> ret.value, timestamp |-> ret.at]
        /\ (ret.step = "call" /\ MapHas(pre, ret.url)
              /\ AgeOf(ret.url) <= client.cacheOptions.ttl) =>
              /\ ret.outcome = "resolved"
              /\ ret.value = MapGet(pre, ret.url).data
              /\ ~ret.requested
              /\ client.cache = pre
        /\ (ret.step = "call" /\ MapHas(pre, ret.url)
              /\ AgeOf(ret.url) > client.cacheOptions.ttl) =>
              /\ ret.outcome = "pending"
              /\ ret.requested
              /\ ~MapHas(client.cache, ret.url)

\* the response null is stored, and a get for its URL within ttl issues a
\* request all the same
C23_NullAskedAgain ==
    /\ ret.op = "get"
    /\ ret.step = "call"
    /\ client.cacheOptions.enabled
    /\ MapHas(pre, ret.url)
    /\ MapGet(pre, ret.url).data = Null
    /\ AgeOf(ret.url) <= client.cacheOptions.ttl
    /\ ret.requested
    /\ gets[ret.caller].pc = "fetch"

\* the statements hold of every get whose URL holds no stored null
C23_ServedUnlessNull ==
    (ret.op = "get" /\ ret.step = "call" /\ MapHas(pre, ret.url)
       /\ MapGet(pre, ret.url).data = Null) \/ C23_StoredThenServed

\* an entry older than ttl is discarded by the get that finds it
C23_ExpiredDiscarded ==
    /\ ret.op = "get"
    /\ ret.step = "call"
    /\ MapHas(pre, ret.url)
    /\ AgeOf(ret.url) > client.cacheOptions.ttl
    /\ ~MapHas(client.cache, ret.url)


\* the error the specification gives a failure: by the status of a response
\* that is not ok, ParseError for a body that is not JSON, NetworkError for
\* every other failure of the transport
ClaimedError(step, status) ==
    CASE step = "status" /\ status = 404 -> "NotFoundError"
      [] step = "status" /\ status = 429 -> "RateLimitError"
      [] step = "status" -> "NetworkError"
      [] step = "not json" -> "ParseError"
      [] OTHER -> "NetworkError"

\* C24 (as the specification states it): a get that fails rejects with the
\* error that belongs to its failure, and has left the cache as it was: the
\* call has stored nothing and has removed no entry.
C24_FailureLeavesCache ==
    IsGet(ErrorNames) =>
        /\ ret.outcome = ClaimedError(ret.step, ret.status)
        /\ client.cache = pre
        /\ ~ret.removed

\* a get finds the entry of its URL older than ttl, removes it, and is
\* answered 404
C24_FailedGetRemoved ==
    /\ IsGet({"NotFoundError"})
    /\ ret.removed
    /\ ~MapHas(client.cache, ret.url)

\* the connection is lost while the body is read: the call rejects with
\* ParseError
C24_BodyLostIsParseError ==
    /\ IsGet({"ParseError"})
    /\ ret.step = "body lost"

\* what holds of every failing get: the error is the one of the
\* specification unless the body was lost, and the step that rejects
\* changes nothing in the cache
C24_RejectionStoresNothing ==
    IsGet(ErrorNames) =>
        /\ ret.step # "body lost" => ret.outcome = ClaimedError(ret.step, ret.status)
        /\ client.cache = pre
        /\ ret.outcome \in ErrorNames


(***************************************************************************)
(* Settling (specification SpecClientFair).  Time goes on and a timer that *)
(* is due fires; the server owes nothing: no fairness for its steps.       *)
(***************************************************************************)
SpecClientFair ==
    /\ InitClient
    /\ [][NextClient]_vars
    /\ WF_vars(Tick)
    /\ \A c \in Callers : WF_vars(TimerFires(c))

\* C25 (as the specification states it): every get call that issues a
\* request settles, whatever the server does; a call that has no complete
\* response in time is aborted by the timer and rejects with NetworkError.
C25_EveryGetSettles ==
    /\ \A c \in Callers : (gets[c].pc # "idle") ~> (gets[c].pc = "idle")
    /\ [](IsGet({"NetworkError", "ParseError"}) /\ ret.step = "timeout"
            => ret.outcome = "NetworkError")

\* a call awaits the body after its timeout has passed: the headers came in
\* time and cleared the timer
C25_BodyAwaitedPastTimeout ==
    \E c \in Callers :
        /\ gets[c].pc = "json"
        /\ now > gets[c].started + RequestTimeout
        /\ ~ENABLED TimerFires(c)

\* what holds: a call that awaits fetch leaves that await, by a response, a
\* failure or the timer
C25_FetchEnds ==
    \A c \in Callers : (gets[c].pc = "fetch") ~> (gets[c].pc # "fetch")


(***************************************************************************)
(* Eviction (specification SpecClient).                                    *)
(***************************************************************************)
\* the step stores a response
IsStore == ret.op = "get" /\ ret.step = "body" /\ ret.outcome = "resolved"

\* the URLs whose entries the last step took out of the cache
Evicted == MapKeys(pre) \ MapKeys(client.cache)

\* C30 (as the specification states it): under every interleaving of get
\* calls, storing a response evicts at most one entry, the earliest
\* inserted one, and only when the cache would otherwise exceed maxSize;
\* the cache holds a single entry for a URL, also after two overlapping
\* gets for it, and a cache hit leaves the order of the entries as it was.
C30_EvictsOnlyForRoom ==
    /\ UniqueKeys(client.cache)
    /\ (ret.op = "get" /\ ret.step = "call" /\ ~ret.requested) => client.cache = pre
    /\ IsStore =>
          /\ Cardinality(Evicted) <= 1
          /\ Evicted # {} =>
                /\ Evicted = { pre[1].key }
                /\ ~MapHas(pre, ret.url)
                /\ Len(pre) + 1 > client.cacheOptions.maxSize

\* two overlapping gets for one URL with maxSize 2: the second store finds
\* the URL cached and the cache full, and evicts the entry of the other URL
C30_SecondStoreEvicts ==
    /\ IsStore
    /\ client.cacheOptions.maxSize = 2
    /\ Len(pre) = 2
    /\ MapHas(pre, ret.url)
    /\ MapGet(pre, ret.url).data # Null
    /\ MapGet(pre, ret.url).timestamp = ret.at
    /\ pre[1].key # ret.url
    /\ Evicted = { pre[1].key }
    /\ MapKeysSeq(client.cache) = << ret.url >>

\* what holds of every store: at most one entry is evicted, the earliest
\* inserted one, and only from a cache that holds maxSize entries or more
C30_EvictsEarliestOfFull ==
    /\ UniqueKeys(client.cache)
    /\ (ret.op = "get" /\ ret.step = "call" /\ ~ret.requested) => client.cache = pre
    /\ IsStore =>
          /\ Cardinality(Evicted) <= 1
          /\ Evicted # {} =>
                /\ Evicted = { pre[1].key }
                /\ Len(pre) >= client.cacheOptions.maxSize

====
